---- MODULE Spec2Model ----
(***************************************************************************)
(* QuectoClaw agent execution runtime.                                     *)
(*                                                                         *)
(*   SpecLoop   : AgentLoop::run_agent_loop with the blocking transport,   *)
(*                the concurrent tool dispatcher (execute_tools), the      *)
(*                session cache and maybe_summarize.                       *)
(*   SpecStream : one streaming transport call of run_agent_loop:          *)
(*                HTTPProvider::chat_stream, process_sse_stream, the       *)
(*                forwarding task and the loop's wait on the done channel. *)
(*   SpecRetry  : the attempt loop of HTTPProvider::chat and chat_stream   *)
(*                (retry on connection errors, 5xx and 429).               *)
(*   SpecStore  : SessionManager for one session key: the cache entry, the *)
(*                detached save_session tasks, get_messages loading from   *)
(*                disk, clear, and the files of the sessions directory.    *)
(*   SpecLimiter: RateLimiter::check_rate_limit called by concurrent       *)
(*                tasks while the clock advances.                          *)
(*   SpecGateway: AgentLoop::run over the MessageBus: rate limiting,       *)
(*                process_message and publish_outbound.                    *)
(*   SpecSubagent: SubagentTool::execute and its shared depth counter.     *)
(*   SpecRouter : ModelRouter::resolve_model on every router and message.  *)
(*   SpecRequest: the request body chat and chat_stream build from an      *)
(*                options map.                                             *)
(*   SpecKeys   : SessionManager with several session keys that may share  *)
(*                a file of the sessions directory.                        *)
(*   SpecRuns   : two runs of run_agent_loop on one session key, one       *)
(*                add_message call per step.                               *)
(*   SpecLocks  : the lock guards held at the awaits of the ToolRegistry,  *)
(*                the MessageBus, the session cache and the RateLimiter.   *)
(*   SpecStreamFair, SpecGatewayFair: SpecStream and SpecGateway with the  *)
(*                tasks of the runtime scheduled fairly.                   *)
(***************************************************************************)
EXTENDS Naturals, Integers, Sequences, FiniteSets, TLC

VARIABLES
    \* ---- run_agent_loop ------------------------------------------------
    pc,             \* position of run_agent_loop
    session,        \* SessionData of the run's session key (the cache entry)
    messages,       \* the live message list of the run
    iteration,      \* loop variable of `for iteration in 0..max_iterations`
    final_content,  \* local `final_content`
    tool_calls,     \* the tool calls of the current turn
    set,            \* JoinSet: task index -> "running" | "finished" | "joined"
    completed,      \* task indices in the order the tasks completed, not yet joined
    results,        \* local `results` of execute_tools
    ret,            \* what run_agent_loop returned
    chat_log,       \* the loop's calls of provider.chat, in order: the message list
                    \* handed over and the outcome
    summarizer_log  \* the calls of provider.chat made by summarize_session: the
                    \* message count, the summary read and the outcome

VARIABLES
    \* ---- chat_stream / process_sse_stream -----------------------------
    cs_pc,          \* position of HTTPProvider::chat_stream
    attempt,        \* loop variable of `for attempt in 0..=max_retries`
    nlines,         \* lines the server has sent on the response body so far
    wire,           \* the complete lines received so far, in order
    buffer,         \* local `buffer`: <<line>> for an unterminated line received, else <<>>
    full_content,   \* local `full_content`
    finish_reason,  \* local `finish_reason`
    usage_info,     \* local `usage_info`
    tool_calls_acc, \* local `tool_calls_acc`: index -> (id, name, arguments)
    outbox,         \* events of the current step still to pass tx.send(..).await
    event_ch,       \* the channel (event_tx, event_rx) of the forwarding task
    sent,           \* every event chat_stream has sent on tx, in order
    \* ---- the streaming branch of run_agent_loop ------------------------
    fwd_pc,         \* position of the spawned forwarding task
    done_ch,        \* the channel (done_tx, done_rx)
    done_senders,   \* the live senders of the done channel
    sink,           \* events delivered to the caller's stream_tx, in order
    main_pc,        \* position of the loop at `done_rx.recv().await`
    stream_response \* the LLMResponse the loop received: <<response>>, or <<>>

VARIABLES
    \* ---- the attempt loop of chat / chat_stream ------------------------
    rt_pc,          \* position of the transport call
    rt_fn,          \* the function called: "chat" or "chat_stream"
    rt_max,         \* local `max_retries`
    rt_attempt,     \* loop variable of `for attempt in 0..=max_retries`
    rt_log,         \* what each `send().await` of the call yielded, in order
    rt_last_error,  \* local `last_error` of chat
    rt_events,      \* events the attempt loop of chat_stream sent on tx
    rt_ret          \* what the call returned

VARIABLES
    \* ---- SessionManager and the sessions directory ----------------------
    st_cache,       \* the cache entry of the session key: <<data>>, or <<>>
    st_dir,         \* the sessions directory: path -> inode number
    st_inodes,      \* inode number -> content of the file
    st_saves,       \* the spawned save_session tasks that have not ended
    st_get,         \* the get_messages call in progress
    st_clear_pc,    \* position of the clear call in progress
    st_calls,       \* add_message, set_summary and clear calls made so far
    st_msgs_ret,    \* what the last get_messages call returned
    st_sum_ret,     \* what the last get_summary call returned: <<text>>, or <<>>
    st_added,       \* messages of the add_message calls that returned since the
                    \* last clear, in call order
    st_only_adds,   \* no clear was called and no add_message ran during a
                    \* get_messages call
    st_held,        \* every SessionData the cache has held for the key
    st_cleared,     \* clear has returned and no add_message or set_summary
                    \* was called since
    st_restarted,   \* the process was restarted
    st_persisted,   \* <<data>> of the session file found at the restart, while
                    \* no call has changed the session since; else <<>>
    st_save_failed  \* a save_session task of this process returned an Err

VARIABLES
    \* ---- RateLimiter ---------------------------------------------------
    lim_max,        \* field `max_requests`
    lim_history,    \* field `history`: key -> the timestamps kept, oldest first
    lim_now,        \* the monotonic clock read by Instant::now()
    lim_pc,         \* caller -> position in check_rate_limit
    lim_key,        \* caller -> the key of its call
    lim_log         \* the calls that returned, in order: key, time and result

VARIABLES
    \* ---- AgentLoop::run and the message bus ----------------------------
    gw_pc,          \* position of AgentLoop::run
    gw_msg,         \* local `msg` of the loop: <<message>>, or <<>>
    gw_arrived,     \* inbound messages the channels have published so far
    gw_inbound,     \* the inbound channel of the bus
    gw_outbound,    \* the global outbound channel of the bus
    gw_handlers,    \* channel name -> the queue of its registered handler
    gw_sessions,    \* session key -> session history
    gw_llm_calls,   \* calls of provider.chat made so far
    gw_tool_calls,  \* tool executions made so far
    gw_handled      \* one record per inbound message the loop has finished with

VARIABLES
    \* ---- SubagentTool --------------------------------------------------
    sub_depth,      \* the shared counter `current_depth`
    sub_calls       \* the calls of SubagentTool::execute made so far, in order

VARIABLES
    \* ---- ModelRouter ---------------------------------------------------
    router_routes,  \* field `routes`
    router_default, \* field `default_model`
    router_message, \* the message resolve_model is called with
    router_ret      \* what resolve_model returned, or None

VARIABLES
    \* ---- the request body of chat / chat_stream ------------------------
    req_fn,         \* the function called: "chat" or "chat_stream"
    req_tools,      \* argument `tools`
    req_options,    \* argument `options`: key -> value
    req_body        \* the JSON object handed to `.json(&body)`: <<body>>, or <<>>

VARIABLES
    \* ---- SessionManager with several session keys ------------------------
    ks_cache,       \* field `cache`: session key -> SessionData
    ks_files,       \* the sessions directory: path -> content of the file
    ks_saves,       \* the spawned save_session tasks that have not run
    ks_calls,       \* add_message, set_summary and clear calls made so far
    ks_touched,     \* the keys of those calls
    ks_msgs_ret,    \* key -> what the last get_messages(key) returned: <<v>>
    ks_sum_ret      \* key -> what the last get_summary(key) returned: <<v>>

VARIABLES
    \* ---- runs of the agent loop on one session key -----------------------
    rn_pc,          \* run -> position in run_agent_loop
    rn_iteration,   \* run -> iterations of the LLM loop begun
    rn_calls,       \* run -> ids of the tool calls of the current response
    rn_results,     \* run -> tool_call_ids of the results not yet appended
    rn_history      \* the messages of the session entry in the cache

VARIABLES
    \* ---- the locks of the shared components ------------------------------
    lk_pc,          \* task -> where the task is suspended, or "idle"
    lk_held,        \* task -> the lock guards the task holds
    lk_tools,       \* ToolRegistry field `tools`: the registered names
    lk_handlers,    \* MessageBus field `handlers`: the registered channels
    lk_ops          \* operations begun so far

loopVars == <<pc, session, messages, iteration, final_content, tool_calls,
              set, completed, results, ret, chat_log, summarizer_log>>

streamVars == <<cs_pc, attempt, nlines, wire, buffer, full_content, finish_reason,
                usage_info, tool_calls_acc, outbox, event_ch, sent, fwd_pc,
                done_ch, done_senders, sink, main_pc, stream_response>>

retryVars == <<rt_pc, rt_fn, rt_max, rt_attempt, rt_log, rt_last_error,
               rt_events, rt_ret>>

storeVars == <<st_cache, st_dir, st_inodes, st_saves, st_get, st_clear_pc,
               st_calls, st_msgs_ret, st_sum_ret, st_added, st_only_adds,
               st_held, st_cleared, st_restarted, st_persisted,
               st_save_failed>>

limVars == <<lim_max, lim_history, lim_now, lim_pc, lim_key, lim_log>>

gwVars == <<gw_pc, gw_msg, gw_arrived, gw_inbound, gw_outbound, gw_handlers,
            gw_sessions, gw_llm_calls, gw_tool_calls, gw_handled>>

subVars == <<sub_depth, sub_calls>>

routerVars == <<router_routes, router_default, router_message, router_ret>>

reqVars == <<req_fn, req_tools, req_options, req_body>>

keysVars == <<ks_cache, ks_files, ks_saves, ks_calls, ks_touched, ks_msgs_ret,
              ks_sum_ret>>

runsVars == <<rn_pc, rn_iteration, rn_calls, rn_results, rn_history>>

locksVars == <<lk_pc, lk_held, lk_tools, lk_handlers, lk_ops>>

vars == <<loopVars, streamVars, retryVars, storeVars, limVars, gwVars,
          subVars, routerVars, reqVars, keysVars, runsVars, locksVars>>

\* What the actions of one subsystem leave alone: the state of the others.
exceptLoop == <<streamVars, retryVars, storeVars, limVars, gwVars, subVars,
    routerVars, reqVars, keysVars,
    runsVars,
    locksVars>>
exceptStream == <<loopVars, retryVars, storeVars, limVars, gwVars, subVars,
    routerVars, reqVars, keysVars,
    runsVars,
    locksVars>>
exceptRetry == <<loopVars, streamVars, storeVars, limVars, gwVars, subVars,
    routerVars, reqVars, keysVars,
    runsVars,
    locksVars>>
exceptStore == <<loopVars, streamVars, retryVars, limVars, gwVars, subVars,
    routerVars, reqVars, keysVars,
    runsVars,
    locksVars>>
exceptLimiter == <<loopVars, streamVars, retryVars, storeVars, gwVars,
    subVars, routerVars, reqVars, keysVars,
    runsVars,
    locksVars>>
exceptGateway == <<loopVars, streamVars, retryVars, storeVars, subVars,
    routerVars, reqVars, keysVars,
    runsVars,
    locksVars>>
exceptSubagent == <<loopVars, streamVars, retryVars, storeVars, limVars,
    gwVars, routerVars, reqVars, keysVars,
    runsVars,
    locksVars>>
exceptRouter == <<loopVars, streamVars, retryVars, storeVars, limVars, gwVars,
    subVars, reqVars, keysVars,
    runsVars,
    locksVars>>
exceptRequest == <<loopVars, streamVars, retryVars, storeVars, limVars,
    gwVars, subVars, routerVars, keysVars,
    runsVars,
    locksVars>>

exceptKeys == <<loopVars, streamVars, retryVars, storeVars, limVars, gwVars,
    subVars, routerVars, reqVars,
    runsVars,
    locksVars>>

exceptRuns == <<loopVars, streamVars, retryVars, storeVars, limVars, gwVars,
    subVars, routerVars, reqVars, keysVars,
    locksVars>>

exceptLocks == <<loopVars, streamVars, retryVars, storeVars, limVars, gwVars,
    subVars, routerVars, reqVars, keysVars, runsVars>>

\* Option::None
None == "none"

(***************************************************************************)
(* Bounds and inputs                                                       *)
(***************************************************************************)
\* config.agents.defaults.max_tool_iterations of the modelled run
MaxToolIterations == 2

\* maybe_summarize: `count > 20 && count % 20 == 0`
SummarizeEvery == 20

\* response.content values the mocked model answers with
Contents == {"", "hi"}

\* Tools: "echo" succeeds, "fail" returns is_error = true, "boom" panics
\* inside execute; "ghost" is requested by the model but not registered.
Registry == {"echo", "fail", "boom"}

\* Function names of the tool calls of one model response, in call order.
CallBatches ==
    { <<>>, <<"echo">>, <<"fail">>, <<"ghost">>, <<"boom">>,
      <<"echo", "fail">>, <<"boom", "echo">>, <<"ghost", "boom", "echo">> }

SentinelText == "(Agent reached maximum tool iterations without a final response)"

(***************************************************************************)
(* provider/mod.rs : Message, ToolCall, LLMResponse                        *)
(***************************************************************************)
MessageSystem(c) ==
    [role |-> "system", content |-> c, tool_calls |-> <<>>, tool_call_id |-> None]

MessageUser(c) ==
    [role |-> "user", content |-> c, tool_calls |-> <<>>, tool_call_id |-> None]

MessageAssistant(c) ==
    [role |-> "assistant", content |-> c, tool_calls |-> <<>>, tool_call_id |-> None]

MessageAssistantWithToolCalls(c, tcs) ==
    [role |-> "assistant", content |-> c, tool_calls |-> tcs, tool_call_id |-> None]

MessageToolResult(id, c) ==
    [role |-> "tool", content |-> c, tool_calls |-> <<>>, tool_call_id |-> id]

\* The id the model gives the i-th call of the response of iteration `it`.
CallId(it, i) == "call_" \o ToString(it) \o "_" \o ToString(i)

MakeToolCalls(it, names) ==
    [i \in 1..Len(names) |-> [id |-> CallId(it, i), name |-> names[i]]]

\* The responses the model may give in iteration `it`.
Responses(it) ==
    { [content |-> c, tool_calls |-> MakeToolCalls(it, b)] :
        c \in Contents, b \in CallBatches }

HasToolCalls(resp) == Len(resp.tool_calls) > 0

(***************************************************************************)
(* tool/mod.rs : ToolRegistry::execute and the registered tools            *)
(***************************************************************************)
ToolResultError(text) == [panicked |-> FALSE, for_llm |-> text, is_error |-> TRUE]

ToolResultSuccess(text) == [panicked |-> FALSE, for_llm |-> text, is_error |-> FALSE]

\* What the registered tool does; panicked = TRUE stands for an unwinding panic
\* inside Tool::execute.
ToolExecute(name) ==
    CASE name = "echo" -> ToolResultSuccess("echo-output")
      [] name = "fail" -> ToolResultError("command failed")
      [] OTHER         -> [panicked |-> TRUE]

\* Mutant: no lookup, the call reaches a tool that is not there.
RegistryExecuteNoLookup(name) == ToolExecute(name)

RegistryExecute(name) ==
    IF name \in Registry
    THEN ToolExecute(name)
    ELSE ToolResultError("tool '" \o name \o "' not found")

(***************************************************************************)
(* session.rs : the cache entry of one session key                         *)
(***************************************************************************)
\* Mutant: the message replaces the history instead of extending it.
AddMessageReplace(s, m) == [s EXCEPT !.messages = <<m>>]

\* Mutant: the message is not stored.
AddMessageDropped(s, m) == s

\* Lines 50-51: session.messages.push(message)
AddMessage(s, m) == [s EXCEPT !.messages = Append(@, m)]

SetSummary(s, text) == [s EXCEPT !.summary = text]

MessageCount(s) == Len(s.messages)

\* History left by n / 2 earlier runs that answered without tools.
PriorExchange(n) ==
    [i \in 1..n |-> IF i % 2 = 1 THEN MessageUser("earlier") ELSE MessageAssistant("hi")]

\* Sessions a run can find: a new one, one that is two messages short of
\* SummarizeEvery messages, one that is two messages short of its first
\* summarization, and one that was summarized before and is two messages
\* short of the next summarization.
InitSessions ==
    { [messages |-> PriorExchange(0), summary |-> ""],
      [messages |-> PriorExchange(SummarizeEvery - 2), summary |-> ""],
      [messages |-> PriorExchange(2 * SummarizeEvery - 2), summary |-> ""],
      [messages |-> PriorExchange(3 * SummarizeEvery - 2), summary |-> "old summary"] }

(***************************************************************************)
(* agent/mod.rs : run_agent_loop                                           *)
(***************************************************************************)
NoReturn == [tag |-> "pending"]
RetOk(text) == [tag |-> "Ok", text |-> text]
RetErr(text) == [tag |-> "Err", text |-> text]

\* Result<LLMResponse> of provider.chat
ChatOk(resp) == [tag |-> "Ok", response |-> resp]
ChatErr == [tag |-> "Err"]

\* No run of the loop is in progress.
LoopIdle ==
    /\ pc = "idle"
    /\ session = [messages |-> <<>>, summary |-> ""]
    /\ messages = <<>>
    /\ iteration = 0
    /\ final_content = ""
    /\ tool_calls = <<>>
    /\ set = <<>>
    /\ completed = <<>>
    /\ results = <<>>
    /\ ret = NoReturn
    /\ chat_log = <<>>
    /\ summarizer_log = <<>>

\* No streaming transport call is in progress.
StreamIdle ==
    /\ cs_pc = "idle"
    /\ attempt = 0
    /\ nlines = 0
    /\ wire = <<>>
    /\ buffer = <<>>
    /\ full_content = ""
    /\ finish_reason = "stop"
    /\ usage_info = None
    /\ tool_calls_acc = <<>>
    /\ outbox = <<>>
    /\ event_ch = <<>>
    /\ sent = <<>>
    /\ fwd_pc = "idle"
    /\ done_ch = <<>>
    /\ done_senders = {}
    /\ sink = <<>>
    /\ main_pc = "idle"
    /\ stream_response = <<>>

\* No call of the attempt loop is in progress.
RetryIdle ==
    /\ rt_pc = "idle"
    /\ rt_fn = None
    /\ rt_max = 0
    /\ rt_attempt = 0
    /\ rt_log = <<>>
    /\ rt_last_error = None
    /\ rt_events = <<>>
    /\ rt_ret = NoReturn

\* SessionData::default() (the timestamps are left out)
DefaultSession == [messages |-> <<>>, summary |-> ""]

NoResult == [done |-> FALSE, value |-> <<>>, floor |-> <<>>, quiet |-> FALSE,
             after_clear |-> FALSE]

ReaderIdle == [pc |-> "idle", data |-> DefaultSession, floor |-> <<>>,
               after_clear |-> FALSE]

\* A SessionManager was just created over an empty sessions directory.
StoreIdle ==
    /\ st_cache = <<>>
    /\ st_dir = <<>>
    /\ st_inodes = <<>>
    /\ st_saves = {}
    /\ st_get = ReaderIdle
    /\ st_clear_pc = "idle"
    /\ st_calls = 0
    /\ st_msgs_ret = NoResult
    /\ st_sum_ret = <<>>
    /\ st_added = <<>>
    /\ st_only_adds = TRUE
    /\ st_held = {}
    /\ st_cleared = FALSE
    /\ st_restarted = FALSE
    /\ st_persisted = <<>>
    /\ st_save_failed = FALSE

\* The tasks that call check_rate_limit concurrently
Callers == {"t1", "t2"}

\* RateLimiter::new: no key has a history, and no call is in progress.
LimiterIdle ==
    /\ lim_max = 0
    /\ lim_history = <<>>
    /\ lim_now = 0
    /\ lim_pc = [c \in Callers |-> "idle"]
    /\ lim_key = [c \in Callers |-> None]
    /\ lim_log = <<>>

\* AgentLoop::run was not started and the bus is empty.
GatewayIdle ==
    /\ gw_pc = "idle"
    /\ gw_msg = <<>>
    /\ gw_arrived = 0
    /\ gw_inbound = <<>>
    /\ gw_outbound = <<>>
    /\ gw_handlers = <<>>
    /\ gw_sessions = <<>>
    /\ gw_llm_calls = 0
    /\ gw_tool_calls = 0
    /\ gw_handled = <<>>

\* SubagentTool::new: the counter is 0 and execute was not called.
SubagentIdle ==
    /\ sub_depth = 0
    /\ sub_calls = <<>>

\* resolve_model was not called.
RouterIdle ==
    /\ router_routes = <<>>
    /\ router_default = "default"
    /\ router_message = <<>>
    /\ router_ret = None

\* No request body was built.
RequestIdle ==
    /\ req_fn = None
    /\ req_tools = <<>>
    /\ req_options = <<>>
    /\ req_body = <<>>

\* A SessionManager was just created over an empty sessions directory; no
\* call was made.
KeysIdle ==
    /\ ks_cache = <<>>
    /\ ks_files = <<>>
    /\ ks_saves = {}
    /\ ks_calls = 0
    /\ ks_touched = {}
    /\ ks_msgs_ret = <<>>
    /\ ks_sum_ret = <<>>

\* No run of the agent loop has started on the shared session.
RunsIdle ==
    /\ rn_pc = <<>>
    /\ rn_iteration = <<>>
    /\ rn_calls = <<>>
    /\ rn_results = <<>>
    /\ rn_history = <<>>

\* No task is inside an operation of a shared component.
LocksIdle ==
    /\ lk_pc = <<>>
    /\ lk_held = <<>>
    /\ lk_tools = {}
    /\ lk_handlers = {}
    /\ lk_ops = 0

InitLoop ==
    /\ LocksIdle
    /\ RunsIdle
    /\ KeysIdle
    /\ StreamIdle
    /\ RetryIdle
    /\ StoreIdle
    /\ LimiterIdle
    /\ GatewayIdle
    /\ SubagentIdle /\ RouterIdle /\ RequestIdle
    /\ pc = "idle"
    /\ session \in InitSessions
    /\ messages = <<>>
    /\ iteration = 0
    /\ final_content = ""
    /\ tool_calls = <<>>
    /\ set = <<>>
    /\ completed = <<>>
    /\ results = <<>>
    /\ ret = NoReturn
    /\ chat_log = <<>>
    /\ summarizer_log = <<>>

\* Lines 176-201: system prompt, summary, history, the user message.
BuildMessages(s, user_msg) ==
    <<MessageSystem("system prompt")>>
    \o (IF s.summary # ""
        THEN <<MessageSystem("Summary of earlier conversation:\n" \o s.summary)>>
        ELSE <<>>)
    \o s.messages
    \o <<user_msg>>

RunAgentLoopStart ==
    /\ pc = "idle"
    /\ LET user_msg == MessageUser("say hello") IN
        /\ messages' = BuildMessages(session, user_msg)
        /\ session' = AddMessage(session, user_msg)
    /\ iteration' = 0
    /\ final_content' = ""
    /\ pc' = "iterate"
    /\ UNCHANGED <<tool_calls, set, completed, results, ret, chat_log>>
    /\ UNCHANGED summarizer_log
    /\ UNCHANGED exceptLoop

\* provider.chat(...).await? fails: the error propagates out of the loop.
ChatFails ==
    /\ pc = "iterate"
    /\ iteration < MaxToolIterations
    /\ chat_log' = Append(chat_log, [messages |-> messages, outcome |-> ChatErr])
    /\ ret' = RetErr("LLM API error")
    /\ pc' = "returned"
    /\ UNCHANGED <<session, messages, iteration, final_content, tool_calls,
                   set, completed, results>>
    /\ UNCHANGED summarizer_log
    /\ UNCHANGED exceptLoop

\* Lines 358-366: a response without tool calls ends the loop.
ChatFinal ==
    /\ pc = "iterate"
    /\ iteration < MaxToolIterations
    /\ \E resp \in Responses(iteration) :
        /\ ~HasToolCalls(resp)
        /\ final_content' = resp.content
        /\ session' = AddMessage(session, MessageAssistant(resp.content))
        /\ chat_log' = Append(chat_log, [messages |-> messages, outcome |-> ChatOk(resp)])
    /\ pc' = "summarize"
    /\ UNCHANGED <<messages, iteration, tool_calls, set, completed, results, ret>>
    /\ UNCHANGED summarizer_log
    /\ UNCHANGED exceptLoop

\* Lines 368-395 and 428-454: the assistant message is stored and one task
\* per tool call is spawned on the JoinSet.
ChatToolCalls ==
    /\ pc = "iterate"
    /\ iteration < MaxToolIterations
    /\ \E resp \in Responses(iteration) :
        /\ HasToolCalls(resp)
        /\ LET assistant_msg ==
                 MessageAssistantWithToolCalls(resp.content, resp.tool_calls) IN
            /\ messages' = Append(messages, assistant_msg)
            /\ session' = AddMessage(session, assistant_msg)
        /\ tool_calls' = resp.tool_calls
        /\ set' = [i \in 1..Len(resp.tool_calls) |-> "running"]
        /\ chat_log' = Append(chat_log, [messages |-> messages, outcome |-> ChatOk(resp)])
    /\ completed' = <<>>
    /\ results' = <<>>
    /\ pc' = "join"
    /\ UNCHANGED <<iteration, final_content, ret>>
    /\ UNCHANGED summarizer_log
    /\ UNCHANGED exceptLoop

\* `for iteration in 0..max_iterations` is exhausted.
LoopExhausted ==
    /\ pc = "iterate"
    /\ iteration >= MaxToolIterations
    /\ pc' = "summarize"
    /\ UNCHANGED <<session, messages, iteration, final_content, tool_calls,
                   set, completed, results, ret, chat_log>>
    /\ UNCHANGED summarizer_log
    /\ UNCHANGED exceptLoop

\* Lines 439-453: the body of one spawned task runs to its end (or panics).
ToolTaskRun(i) ==
    /\ pc = "join"
    /\ i \in DOMAIN set
    /\ set[i] = "running"
    /\ set' = [set EXCEPT ![i] = "finished"]
    /\ completed' = Append(completed, i)
    /\ UNCHANGED <<pc, session, messages, iteration, final_content, tool_calls,
                   results, ret, chat_log>>
    /\ UNCHANGED summarizer_log
    /\ UNCHANGED exceptLoop

\* What set.join_next() yields for task i and what lines 458-470 push.
JoinResult(tc) ==
    LET r == RegistryExecute(tc.name) IN
    IF r.panicked
    THEN [tool_call_id |-> "unknown", tool_name |-> "panic",
          output |-> "Tool execution panicked", success |-> FALSE]
    ELSE [tool_call_id |-> tc.id, tool_name |-> tc.name,
          output |-> r.for_llm, success |-> ~r.is_error]

\* Mutant: the result of a panicked task is dropped instead of replaced.
JoinNextDropPanic ==
    /\ pc = "join"
    /\ completed # <<>>
    /\ LET i == Head(completed) IN
        /\ results' = IF RegistryExecute(tool_calls[i].name).panicked
                       THEN results
                       ELSE Append(results, JoinResult(tool_calls[i]))
        /\ set' = [set EXCEPT ![i] = "joined"]
    /\ completed' = Tail(completed)
    /\ UNCHANGED <<pc, session, messages, iteration, final_content, tool_calls,
                   ret, chat_log>>
    /\ UNCHANGED summarizer_log
    /\ UNCHANGED exceptLoop

\* Lines 457-471: join_next() hands over the next completed task.
JoinNext ==
    /\ pc = "join"
    /\ completed # <<>>
    /\ LET i == Head(completed) IN
        /\ results' = Append(results, JoinResult(tool_calls[i]))
        /\ set' = [set EXCEPT ![i] = "joined"]
    /\ completed' = Tail(completed)
    /\ UNCHANGED <<pc, session, messages, iteration, final_content, tool_calls,
                   ret, chat_log>>
    /\ UNCHANGED summarizer_log
    /\ UNCHANGED exceptLoop

\* Mutant: only the results of successful calls become messages.
ToolMessagesSuccessOnly(rs) ==
    LET ok == SelectSeq(rs, LAMBDA r : r.success)
    IN  [j \in 1..Len(ok) |-> MessageToolResult(ok[j].tool_call_id, ok[j].output)]

ToolMessages(rs) == [j \in 1..Len(rs) |-> MessageToolResult(rs[j].tool_call_id, rs[j].output)]

\* join_next() returns None; lines 397-410 append one tool message per result.
AppendToolResults ==
    /\ pc = "join"
    /\ \A i \in DOMAIN set : set[i] = "joined"
    /\ messages' = messages \o ToolMessages(results)
    /\ session' = [session EXCEPT !.messages = @ \o ToolMessages(results)]
    /\ iteration' = iteration + 1
    /\ pc' = "iterate"
    /\ UNCHANGED <<final_content, tool_calls, set, completed, results, ret, chat_log>>
    /\ UNCHANGED summarizer_log
    /\ UNCHANGED exceptLoop

\* Mutant: no sentinel for an empty final_content.
FinalTextNoSentinel(fc) == fc

\* Lines 416-421.
FinalText(fc) == IF fc = "" THEN SentinelText ELSE fc

ShouldSummarize(count) == count > SummarizeEvery /\ count % SummarizeEvery = 0

\* Lines 413-421 with maybe_summarize not triggered.
ReturnNoSummary ==
    /\ pc = "summarize"
    /\ ~ShouldSummarize(MessageCount(session))
    /\ ret' = RetOk(FinalText(final_content))
    /\ pc' = "returned"
    /\ UNCHANGED <<session, messages, iteration, final_content, tool_calls,
                   set, completed, results, chat_log>>
    /\ UNCHANGED summarizer_log
    /\ UNCHANGED exceptLoop

\* What the model answers the summary request with
Summaries == {"", "new summary"}

\* One call of summarize_session: `count` is what maybe_summarize counted,
\* `existing` what get_summary returned.
SummarizerCall(s, outcome) ==
    [count |-> MessageCount(s), existing |-> s.summary, outcome |-> outcome]

MaybeSummarizePropagates(text) == RetErr("summarization failed")

\* maybe_summarize, `if let Err(e) = self.summarize_session(..).await`: the
\* error is logged and the run returns its text.
MaybeSummarizeLogs(text) == RetOk(text)

\* summarize_session: the summarizer call succeeds and set_summary stores
\* the content of the response.
ReturnSummarized ==
    /\ pc = "summarize"
    /\ ShouldSummarize(MessageCount(session))
    /\ \E text \in Summaries :
        /\ summarizer_log' = Append(summarizer_log,
               SummarizerCall(session, ChatOk([content |-> text, tool_calls |-> <<>>])))
        /\ session' = SetSummary(session, text)
    /\ ret' = RetOk(FinalText(final_content))
    /\ pc' = "returned"
    /\ UNCHANGED <<messages, iteration, final_content, tool_calls,
                   set, completed, results, chat_log>>
    /\ UNCHANGED exceptLoop

\* summarize_session: the summarizer call fails; the failure is only logged.
ReturnSummaryFailed ==
    /\ pc = "summarize"
    /\ ShouldSummarize(MessageCount(session))
    /\ summarizer_log' = Append(summarizer_log, SummarizerCall(session, ChatErr))
    /\ ret' = MaybeSummarizeLogs(FinalText(final_content))
    /\ pc' = "returned"
    /\ UNCHANGED <<session, messages, iteration, final_content, tool_calls,
                   set, completed, results, chat_log>>
    /\ UNCHANGED exceptLoop

NextLoop ==
    \/ RunAgentLoopStart
    \/ ChatFails
    \/ ChatFinal
    \/ ChatToolCalls
    \/ LoopExhausted
    \/ \E i \in DOMAIN set : ToolTaskRun(i)
    \/ JoinNext
    \/ AppendToolResults
    \/ ReturnNoSummary
    \/ ReturnSummarized
    \/ ReturnSummaryFailed

SpecLoop == InitLoop /\ [][NextLoop]_vars

(***************************************************************************)
(* provider/http.rs : chat_stream and process_sse_stream                   *)
(***************************************************************************)
\* options["max_retries"] of the modelled call
MaxRetries == 1

\* Lines the server sends on one response body
MaxLines == 4

\* Capacity of the mpsc channels created by the streaming branch: 256 in the
\* source, scaled to the stream lengths of the model
EventChanCap == 4

\* StreamEvent
Token(text) == [type |-> "Token", text |-> text]

ToolCallDelta(index, id, name, arguments) ==
    [type |-> "ToolCallDelta", index |-> index, id |-> id, name |-> name,
     arguments |-> arguments]

Done(resp) == [type |-> "Done", response |-> resp]

Error(msg) == [type |-> "Error", message |-> msg]

IsTerminal(e) == e.type \in {"Done", "Error"}

\* Elements of delta.tool_calls.  index is <<>> when the key is absent, id,
\* name and arguments are None when absent.
FragHead0 == [index |-> <<0>>, id |-> "call_a", name |-> "x", arguments |-> None]
FragArgs0 == [index |-> <<>>, id |-> None, name |-> None, arguments |-> "p"]
FragHead1 == [index |-> <<1>>, id |-> "call_b", name |-> "y", arguments |-> "q"]
FragReId0 == [index |-> <<0>>, id |-> "call_c", name |-> None, arguments |-> "r"]

\* Lines of the response body after trim().
DoneLine == [kind |-> "done"]          \* data: [DONE]

IgnoredLine == [kind |-> "ignored"]    \* a comment, another field, or data that is no JSON

DataLine(content, tcs, finish, usage) ==
    [kind |-> "data", content |-> content, tool_calls |-> tcs,
     finish_reason |-> finish, usage |-> usage]

TokenLine(c) == DataLine(c, <<>>, None, None)

ToolCallLine(tcs) == DataLine(None, tcs, None, None)

Lines ==
    { DoneLine, IgnoredLine,
      TokenLine("a"), TokenLine("b"), TokenLine(""),
      DataLine(None, <<>>, "tool_calls", "usage:7+3=10"),
      ToolCallLine(<<FragHead0>>), ToolCallLine(<<FragArgs0>>),
      ToolCallLine(<<FragHead1>>), ToolCallLine(<<FragReId0>>),
      DataLine("a", <<FragHead1, FragHead0>>, None, None) }

\* Line 397-398: a missing index reads as 0.
IndexOf(tc) == IF tc.index = <<>> THEN 0 ELSE tc.index[1]

\* Lines 406-410: a missing arguments string reads as "".
ArgsFragment(tc) == IF tc.arguments = None THEN "" ELSE tc.arguments

\* Lines 412-422: tool_calls_acc.entry(index).or_insert_with(..) and its update.
ApplyFragment(acc, tc) ==
    LET idx == IndexOf(tc)
        old == IF idx \in DOMAIN acc THEN acc[idx]
               ELSE [id |-> "", name |-> "", arguments |-> ""]
        new == [id |-> IF tc.id # None THEN tc.id ELSE old.id,
                name |-> IF tc.name # None THEN tc.name ELSE old.name,
                arguments |-> old.arguments \o ArgsFragment(tc)]
    IN  [i \in DOMAIN acc \cup {idx} |-> IF i = idx THEN new ELSE acc[i]]

RECURSIVE ApplyFragments(_, _)
ApplyFragments(acc, tcs) ==
    IF tcs = <<>> THEN acc
    ELSE ApplyFragments(ApplyFragment(acc, Head(tcs)), Tail(tcs))

\* Lines 424-431: one ToolCallDelta event per fragment.
DeltaEvents(tcs) ==
    [i \in 1..Len(tcs) |->
        ToolCallDelta(IndexOf(tcs[i]), tcs[i].id, tcs[i].name, ArgsFragment(tcs[i]))]

\* Mutant: an empty content is forwarded as well.
TokenEventsAlways(content) ==
    IF content # None THEN <<Token(content)>> ELSE <<>>

\* Lines 387-392: a non-empty content is forwarded as a Token event.
TokenEvents(content) ==
    IF content # None /\ content # "" THEN <<Token(content)>> ELSE <<>>

\* Mutant: the collected calls are emitted in descending index order.
RECURSIVE SortedKeysDescending(_)
SortedKeysDescending(S) ==
    IF S = {} THEN <<>>
    ELSE LET m == CHOOSE x \in S : \A y \in S : x >= y
         IN  <<m>> \o SortedKeysDescending(S \ {m})

\* calls.sort_by_key(|(idx, _)| *idx)
RECURSIVE SortedKeys(_)
SortedKeys(S) ==
    IF S = {} THEN <<>>
    ELSE LET m == CHOOSE x \in S : \A y \in S : x <= y
         IN  <<m>> \o SortedKeys(S \ {m})

\* Lines 318-338 and 442-462: the accumulated fragments as ToolCalls.
CollectToolCalls(acc) ==
    LET keys == SortedKeys(DOMAIN acc) IN
    [k \in 1..Len(keys) |->
        [id |-> acc[keys[k]].id, call_type |-> "function",
         name |-> acc[keys[k]].name, arguments |-> acc[keys[k]].arguments]]

\* Lines 340-345 and 464-469.
BuildResponse(content, acc, finish, usage) ==
    [content |-> content, tool_calls |-> CollectToolCalls(acc),
     finish_reason |-> finish, usage |-> usage]

HttpOutcomes == {"success", "transient", "fatal", "network"}

\* Lines 246-263 of agent/mod.rs: the channels are created, the forwarding
\* task is spawned and calls chat_stream; the loop awaits done_rx.recv().
StartStreaming ==
    /\ main_pc = "idle"
    /\ main_pc' = "recv"
    /\ fwd_pc' = "chat_stream"
    /\ cs_pc' = "connect"
    /\ done_senders' = {"done_tx", "fwd_tx"}
    /\ UNCHANGED <<attempt, nlines, wire, buffer, full_content, finish_reason,
                   usage_info, tool_calls_acc, outbox, event_ch, sent, done_ch,
                   sink, stream_response>>
    /\ UNCHANGED exceptStream

\* Lines 229-232: a success status ends the attempt loop.
HttpSuccess ==
    /\ cs_pc = "connect"
    /\ cs_pc' = "sse"
    /\ attempt' = 0
    /\ UNCHANGED <<nlines, wire, buffer, full_content, finish_reason, usage_info,
                   tool_calls_acc, outbox, event_ch, sent, fwd_pc, done_ch,
                   done_senders, sink, main_pc, stream_response>>
    /\ UNCHANGED exceptStream

\* Lines 237-239 and 247-250: a transient status or a network error with
\* retries left.
HttpRetry ==
    /\ cs_pc = "connect"
    /\ attempt < MaxRetries
    /\ \E outcome \in {"transient", "network"} : attempt' = attempt + 1
    /\ UNCHANGED <<cs_pc, nlines, wire, buffer, full_content, finish_reason,
                   usage_info, tool_calls_acc, outbox, event_ch, sent, fwd_pc,
                   done_ch, done_senders, sink, main_pc, stream_response>>
    /\ UNCHANGED exceptStream

\* Lines 240-245 and 251-254: a fatal status, or a transient status or a
\* network error on the last attempt: an Error event, then Err.
HttpFail ==
    /\ cs_pc = "connect"
    /\ \E outcome \in HttpOutcomes \ {"success"} :
        /\ outcome = "fatal" \/ attempt >= MaxRetries
        /\ outbox' = <<Error(outcome)>>
    /\ cs_pc' = "ret_err"
    /\ attempt' = 0
    /\ UNCHANGED <<nlines, wire, buffer, full_content, finish_reason, usage_info,
                   tool_calls_acc, event_ch, sent, fwd_pc, done_ch, done_senders,
                   sink, main_pc, stream_response>>
    /\ UNCHANGED exceptStream

\* Lines 310-436: one complete line of the body is handled.
ProcessLine(line) ==
    /\ wire' = Append(wire, line)
    /\ IF line.kind = "done"
       THEN /\ outbox' = <<Done(BuildResponse(full_content, tool_calls_acc,
                                              finish_reason, usage_info))>>
            /\ tool_calls_acc' = <<>>
            /\ cs_pc' = "ret_ok"
            /\ UNCHANGED <<full_content, finish_reason, usage_info>>
       ELSE IF line.kind = "data"
       THEN /\ finish_reason' = IF line.finish_reason # None
                                THEN line.finish_reason ELSE finish_reason
            /\ usage_info' = IF line.usage # None THEN line.usage ELSE usage_info
            /\ full_content' = IF line.content # None
                               THEN full_content \o line.content ELSE full_content
            /\ tool_calls_acc' = ApplyFragments(tool_calls_acc, line.tool_calls)
            /\ outbox' = TokenEvents(line.content) \o DeltaEvents(line.tool_calls)
            /\ UNCHANGED cs_pc
       ELSE UNCHANGED <<outbox, tool_calls_acc, cs_pc, full_content,
                        finish_reason, usage_info>>

\* Lines 292-308: a chunk arrives that holds a line, with or without the
\* newline that ends it.
ReadLine ==
    /\ cs_pc = "sse"
    /\ outbox = <<>>
    /\ buffer = <<>>
    /\ nlines < MaxLines
    /\ nlines' = nlines + 1
    /\ \E line \in Lines, newline \in BOOLEAN :
        IF newline
        THEN ProcessLine(line) /\ UNCHANGED buffer
        ELSE /\ buffer' = <<line>>
             /\ UNCHANGED <<wire, outbox, tool_calls_acc, cs_pc, full_content,
                            finish_reason, usage_info>>
    /\ UNCHANGED <<attempt, event_ch, sent, fwd_pc, done_ch, done_senders, sink,
                   main_pc, stream_response>>
    /\ UNCHANGED exceptStream

\* A chunk arrives that holds the newline of the buffered line.
ReadNewline ==
    /\ cs_pc = "sse"
    /\ outbox = <<>>
    /\ buffer # <<>>
    /\ ProcessLine(buffer[1])
    /\ buffer' = <<>>
    /\ UNCHANGED <<attempt, nlines, event_ch, sent, fwd_pc, done_ch, done_senders,
                   sink, main_pc, stream_response>>
    /\ UNCHANGED exceptStream

\* Lines 295-300: reading a chunk fails: an Error event, then break.
ReadError ==
    /\ cs_pc = "sse"
    /\ outbox = <<>>
    /\ outbox' = <<Error("Stream error")>>
    /\ cs_pc' = "eos"
    /\ UNCHANGED <<attempt, nlines, wire, buffer, full_content, finish_reason,
                   usage_info, tool_calls_acc, event_ch, sent, fwd_pc, done_ch,
                   done_senders, sink, main_pc, stream_response>>
    /\ UNCHANGED exceptStream

\* stream.next() yields None: the body ended without the [DONE] line.
EndOfStream ==
    /\ cs_pc = "sse"
    /\ outbox = <<>>
    /\ cs_pc' = "eos"
    /\ UNCHANGED <<attempt, nlines, wire, buffer, full_content, finish_reason,
                   usage_info, tool_calls_acc, outbox, event_ch, sent, fwd_pc,
                   done_ch, done_senders, sink, main_pc, stream_response>>
    /\ UNCHANGED exceptStream

\* Mutant: what was accumulated is discarded when the body ends.
TailFlushDiscard ==
    /\ cs_pc = "eos"
    /\ outbox = <<>>
    /\ cs_pc' = "ret_ok"
    /\ UNCHANGED <<attempt, nlines, wire, buffer, full_content, finish_reason,
                   usage_info, tool_calls_acc, outbox, event_ch, sent, fwd_pc,
                   done_ch, done_senders, sink, main_pc, stream_response>>
    /\ UNCHANGED exceptStream

\* Lines 440-473: what was accumulated is sent as Done, if there is any.
TailFlush ==
    /\ cs_pc = "eos"
    /\ outbox = <<>>
    /\ IF full_content # "" \/ DOMAIN tool_calls_acc # {}
       THEN /\ outbox' = <<Done(BuildResponse(full_content, tool_calls_acc,
                                              finish_reason, usage_info))>>
            /\ tool_calls_acc' = <<>>
       ELSE UNCHANGED <<outbox, tool_calls_acc>>
    /\ cs_pc' = "ret_ok"
    /\ UNCHANGED <<attempt, nlines, wire, buffer, full_content, finish_reason,
                   usage_info, event_ch, sent, fwd_pc, done_ch, done_senders,
                   sink, main_pc, stream_response>>
    /\ UNCHANGED exceptStream

\* tx.send(event).await completes once the channel has room.
SendEvent ==
    /\ outbox # <<>>
    /\ Len(event_ch) < EventChanCap
    /\ event_ch' = Append(event_ch, Head(outbox))
    /\ sent' = Append(sent, Head(outbox))
    /\ outbox' = Tail(outbox)
    /\ UNCHANGED <<cs_pc, attempt, nlines, wire, buffer, full_content,
                   finish_reason, usage_info, tool_calls_acc, fwd_pc, done_ch,
                   done_senders, sink, main_pc, stream_response>>
    /\ UNCHANGED exceptStream

\* chat_stream returns (event_tx is dropped); the forwarding task goes on to
\* its receive loop.
ChatStreamReturn ==
    /\ cs_pc \in {"ret_ok", "ret_err"}
    /\ outbox = <<>>
    /\ cs_pc' = IF cs_pc = "ret_ok" THEN "ok" ELSE "err"
    /\ fwd_pc' = "forward"
    /\ UNCHANGED <<attempt, nlines, wire, buffer, full_content, finish_reason,
                   usage_info, tool_calls_acc, outbox, event_ch, sent, done_ch,
                   done_senders, sink, main_pc, stream_response>>
    /\ UNCHANGED exceptStream

\* Lines 265-276 of agent/mod.rs: one event is received and forwarded; Done
\* is also handed to the loop and ends the task.
ForwardEvent ==
    /\ fwd_pc = "forward"
    /\ event_ch # <<>>
    /\ LET event == Head(event_ch) IN
        /\ sink' = Append(sink, event)
        /\ IF event.type = "Done"
           THEN /\ done_ch' = Append(done_ch, event.response)
                /\ fwd_pc' = "exited"
                /\ done_senders' = done_senders \ {"fwd_tx"}
                /\ event_ch' = <<>>
           ELSE /\ event_ch' = Tail(event_ch)
                /\ UNCHANGED <<done_ch, fwd_pc, done_senders>>
    /\ UNCHANGED <<cs_pc, attempt, nlines, wire, buffer, full_content,
                   finish_reason, usage_info, tool_calls_acc, outbox, sent,
                   main_pc, stream_response>>
    /\ UNCHANGED exceptStream

\* event_rx.recv() yields None: the task ends and drops fwd_tx.
ForwarderExit ==
    /\ fwd_pc = "forward"
    /\ event_ch = <<>>
    /\ fwd_pc' = "exited"
    /\ done_senders' = done_senders \ {"fwd_tx"}
    /\ UNCHANGED <<cs_pc, attempt, nlines, wire, buffer, full_content,
                   finish_reason, usage_info, tool_calls_acc, outbox, event_ch,
                   sent, done_ch, sink, main_pc, stream_response>>
    /\ UNCHANGED exceptStream

\* Lines 279-282 of agent/mod.rs: done_rx.recv().await yields a response, or
\* None once the channel is empty and every sender is dropped.  done_tx is a
\* local of the awaiting block and lives until the await has completed.
DoneRecv ==
    /\ main_pc = "recv"
    /\ IF done_ch # <<>>
       THEN /\ stream_response' = <<Head(done_ch)>>
            /\ done_ch' = Tail(done_ch)
            /\ main_pc' = "got"
       ELSE /\ done_senders = {}
            /\ main_pc' = "err"
            /\ UNCHANGED <<stream_response, done_ch>>
    /\ done_senders' = done_senders \ {"done_tx"}
    /\ UNCHANGED <<cs_pc, attempt, nlines, wire, buffer, full_content,
                   finish_reason, usage_info, tool_calls_acc, outbox, event_ch,
                   sent, fwd_pc, sink>>
    /\ UNCHANGED exceptStream

InitStream ==
    /\ LocksIdle
    /\ RunsIdle
    /\ KeysIdle
    /\ LoopIdle /\ StreamIdle /\ RetryIdle /\ StoreIdle /\ LimiterIdle /\ GatewayIdle
    /\ SubagentIdle /\ RouterIdle /\ RequestIdle

NextStream ==
    \/ StartStreaming
    \/ HttpSuccess
    \/ HttpRetry
    \/ HttpFail
    \/ ReadLine
    \/ ReadNewline
    \/ ReadError
    \/ EndOfStream
    \/ TailFlush
    \/ SendEvent
    \/ ChatStreamReturn
    \/ ForwardEvent
    \/ ForwarderExit
    \/ DoneRecv

SpecStream == InitStream /\ [][NextStream]_vars

(***************************************************************************)
(* provider/http.rs : the attempt loop of chat and of chat_stream          *)
(***************************************************************************)
\* Largest options["max_retries"] of the modelled calls
MaxRetriesLimit == 3

\* The body of an HTTP response: whether it can be read to its end, whether
\* it is JSON, whether the JSON has an "error" member and a first choice.
Body(readable, json, has_error, has_choice, text) ==
    [readable |-> readable, json |-> json, has_error |-> has_error,
     has_choice |-> has_choice, text |-> text]

Completion == Body(TRUE, TRUE, FALSE, TRUE, "hi")

NotJson == Body(TRUE, FALSE, FALSE, FALSE, "busy")

ApiErrorObject == Body(TRUE, TRUE, TRUE, FALSE, "quota")

NoChoices == Body(TRUE, TRUE, FALSE, FALSE, "")

Unreadable == Body(FALSE, FALSE, FALSE, FALSE, "")

\* StatusCode::is_success, StatusCode::is_server_error
IsSuccess(status) == status >= 200 /\ status < 300

IsServerError(status) == status >= 500 /\ status < 600

\* Lines 136 and 234.
IsTransient(status) == IsServerError(status) \/ status = 429

\* What one `send().await` can yield: a response with a status and a body, or
\* a connection error.
HttpResponse(status, body) ==
    [kind |-> "response", status |-> status, body |-> body, error |-> ""]

NetworkError(text) ==
    [kind |-> "network", status |-> 0, body |-> Unreadable, error |-> text]

AttemptOutcomes ==
    { HttpResponse(200, b) : b \in {Completion, NotJson, ApiErrorObject, NoChoices, Unreadable} }
    \cup { HttpResponse(s, b) : s \in {404, 429, 503}, b \in {NotJson, Unreadable} }
    \cup { NetworkError("connection refused") }

\* parse_response
ParseResponse(body) ==
    IF ~body.json THEN RetErr("expected value at line 1 column 1")
    ELSE IF body.has_error THEN RetErr("LLM API error: " \o body.text)
    ELSE IF ~body.has_choice THEN RetErr("No choices in LLM response")
    ELSE RetOk(body.text)

\* Lines 131-133 of chat: `response.text().await?`, then parse_response.
ChatSuccess(body) ==
    IF ~body.readable THEN RetErr("error decoding response body")
    ELSE ParseResponse(body)

\* Lines 230-231 and 266 of chat_stream: the response is handed to
\* process_sse_stream, which returns Ok(()) on each of its paths (lines 347
\* and 473).
ChatStreamSuccess(body) == RetOk("()")

\* Lines 137-140 of chat and line 235 of chat_stream.
ErrorBodyText(fn, body) ==
    IF body.readable THEN body.text
    ELSE IF fn = "chat" THEN "could not read body" ELSE ""

\* The error of a failed attempt, as lines 144-148, 151, 156, 159, 244 and
\* 253 build it.
AttemptError(fn, outcome) ==
    IF outcome.kind = "network" THEN outcome.error
    ELSE "LLM API error (" \o ToString(outcome.status) \o "): "
         \o ErrorBodyText(fn, outcome.body)

\* Lines 241-243 and 252 of chat_stream: the Error event sent before the
\* call returns its error; chat sends no events.
FailureEvents(fn, outcome) ==
    IF fn = "chat" THEN <<>>
    ELSE IF outcome.kind = "network" THEN <<Error(outcome.error)>>
    ELSE <<Error("HTTP " \o ToString(outcome.status) \o ": "
                 \o ErrorBodyText(fn, outcome.body))>>

\* The attempt failed in a way the loop retries.
Retryable(outcome) ==
    \/ outcome.kind = "network"
    \/ outcome.kind = "response" /\ ~IsSuccess(outcome.status)
                                 /\ IsTransient(outcome.status)

\* Mutant: the last retry is not granted.
RetryLeftOneFewer(att, max_retries) == att + 1 < max_retries

\* `attempt < max_retries` of lines 142, 154, 237 and 247.
RetryLeft(att, max_retries) == att < max_retries

\* Mutant: the error kept from the attempt before is returned.
BailErrorStale(fn, outcome, last_error) ==
    IF last_error # None THEN last_error ELSE AttemptError(fn, outcome)

\* The error of lines 151, 159, 244 and 253: that of the current attempt.
BailError(fn, outcome, last_error) == AttemptError(fn, outcome)

\* chat or chat_stream is called with options["max_retries"] = max_retries.
TransportCall(fn, max_retries) ==
    /\ rt_pc = "idle"
    /\ rt_fn' = fn
    /\ rt_max' = max_retries
    /\ rt_attempt' = 0
    /\ rt_pc' = "attempt"
    /\ UNCHANGED <<rt_log, rt_last_error, rt_events, rt_ret>>
    /\ UNCHANGED exceptRetry

\* Lines 128-134 and 227-232: the attempt gets a success status.
AttemptSucceeds ==
    /\ rt_pc = "attempt"
    /\ \E outcome \in AttemptOutcomes :
        /\ outcome.kind = "response"
        /\ IsSuccess(outcome.status)
        /\ rt_log' = Append(rt_log, outcome)
        /\ rt_ret' = IF rt_fn = "chat" THEN ChatSuccess(outcome.body)
                     ELSE ChatStreamSuccess(outcome.body)
    /\ rt_pc' = "returned"
    /\ UNCHANGED <<rt_fn, rt_max, rt_attempt, rt_last_error, rt_events>>
    /\ UNCHANGED exceptRetry

\* Lines 142-149, 154-158, 237-239 and 247-250: a transient status or a
\* connection error with retries left: `continue`.
AttemptRetried ==
    /\ rt_pc = "attempt"
    /\ \E outcome \in AttemptOutcomes :
        /\ Retryable(outcome)
        /\ RetryLeft(rt_attempt, rt_max)
        /\ rt_log' = Append(rt_log, outcome)
        /\ rt_last_error' = IF rt_fn = "chat" THEN AttemptError(rt_fn, outcome)
                            ELSE rt_last_error
    /\ rt_attempt' = rt_attempt + 1
    /\ UNCHANGED <<rt_pc, rt_fn, rt_max, rt_events, rt_ret>>
    /\ UNCHANGED exceptRetry

\* Lines 150-152, 159, 240-245 and 251-254: any other non-success status, or
\* a transient status or a connection error without retries left.
AttemptFails ==
    /\ rt_pc = "attempt"
    /\ \E outcome \in AttemptOutcomes :
        /\ outcome.kind = "network" \/ ~IsSuccess(outcome.status)
        /\ ~(Retryable(outcome) /\ RetryLeft(rt_attempt, rt_max))
        /\ rt_log' = Append(rt_log, outcome)
        /\ rt_events' = rt_events \o FailureEvents(rt_fn, outcome)
        /\ rt_ret' = RetErr(BailError(rt_fn, outcome, rt_last_error))
    /\ rt_pc' = "returned"
    /\ UNCHANGED <<rt_fn, rt_max, rt_attempt, rt_last_error>>
    /\ UNCHANGED exceptRetry

InitRetry ==
    /\ LocksIdle
    /\ RunsIdle
    /\ KeysIdle
    /\ LoopIdle /\ StreamIdle /\ RetryIdle /\ StoreIdle /\ LimiterIdle /\ GatewayIdle
    /\ SubagentIdle /\ RouterIdle /\ RequestIdle

\* The statements after the attempt loop (lines 163-165 and 258-263) are
\* reached only when the loop ends by exhaustion, which no attempt allows:
\* the attempt with attempt = max_retries returns on each of its paths.
NextRetry ==
    \/ \E fn \in {"chat", "chat_stream"}, max_retries \in 0..MaxRetriesLimit :
        TransportCall(fn, max_retries)
    \/ AttemptSucceeds
    \/ AttemptRetried
    \/ AttemptFails

SpecRetry == InitRetry /\ [][NextRetry]_vars

(***************************************************************************)
(* Properties of run_agent_loop and execute_tools (SpecLoop)               *)
(***************************************************************************)
LastK(seq, k) == SubSeq(seq, Len(seq) - k + 1, Len(seq))

\* A turn has just been completed: its tool messages were appended.
TurnAppended == pc = "iterate" /\ tool_calls # <<>>

Panics(tc) == RegistryExecute(tc.name).panicked

\* C1: for every model turn with K tool calls the turn appends exactly K tool
\* messages to the live message list and to the session store, and the i-th
\* of them carries the id and the output of the i-th tool call, whatever the
\* order in which the K tasks completed.  Stated for the turns none of whose
\* tasks panics (a panicking task is the subject of C4 and C5), so that a
\* violation is one of ordering alone.
C1_ResultsInCallOrder ==
    (TurnAppended /\ \A i \in DOMAIN tool_calls : ~Panics(tool_calls[i])) =>
        LET K == Len(tool_calls)
            live == LastK(messages, K)
            stored == LastK(session.messages, K)
        IN  /\ Len(messages) >= K + 1
            /\ messages[Len(messages) - K].role = "assistant"
            /\ live = stored
            /\ \A i \in 1..K :
                live[i] = MessageToolResult(tool_calls[i].id,
                                            RegistryExecute(tool_calls[i].name).for_llm)

FirstResponseFinal ==
    /\ Len(chat_log) >= 1
    /\ chat_log[1].outcome.tag = "Ok"
    /\ ~HasToolCalls(chat_log[1].outcome.response)

\* C2: when the first model response of a run carries no tool calls, the run
\* makes exactly one LLM call, appends one assistant message holding the
\* response content and returns exactly the response content, for every
\* response content.
C2_FinalAnswerReturned ==
    (pc = "returned" /\ FirstResponseFinal) =>
        LET content == chat_log[1].outcome.response.content
            n == Len(session.messages)
        IN  /\ Len(chat_log) = 1
            /\ n >= 2
            /\ session.messages[n] = MessageAssistant(content)
            /\ session.messages[n - 1] = MessageUser("say hello")
            /\ ret = RetOk(content)

AllResponsesCarryToolCalls ==
    /\ Len(chat_log) = MaxToolIterations
    /\ \A j \in DOMAIN chat_log :
        /\ chat_log[j].outcome.tag = "Ok"
        /\ HasToolCalls(chat_log[j].outcome.response)

\* C3: a run issues at most max_tool_iterations LLM calls; when every one of
\* them answered with tool calls the run returns Ok with the sentinel text and
\* the history ends with the tool messages of the last turn, not with a final
\* assistant message.
C3_IterationCap ==
    /\ Len(chat_log) <= MaxToolIterations
    /\ (pc = "returned" /\ AllResponsesCarryToolCalls) =>
        /\ ret = RetOk(SentinelText)
        /\ session.messages[Len(session.messages)].role = "tool"
        /\ messages[Len(messages)].role = "tool"

C3_Witness == pc = "returned" /\ AllResponsesCarryToolCalls

\* The tool messages of `seq` reference a tool call of an earlier assistant
\* message of `seq`.
ToolIdsReferenceCalls(seq) ==
    \A p \in DOMAIN seq :
        seq[p].role = "tool" =>
            \E q \in 1..(p - 1) :
                /\ seq[q].role = "assistant"
                /\ \E c \in DOMAIN seq[q].tool_calls :
                    seq[q].tool_calls[c].id = seq[p].tool_call_id

\* C4: in every reachable session history and live message list every tool
\* message carries the id of a tool call of an earlier assistant message of
\* that sequence, for every tool outcome (success, error result, unknown
\* tool, panicking task).
C4_ToolMessageReferencesCall ==
    /\ ToolIdsReferenceCalls(session.messages)
    /\ ToolIdsReferenceCalls(messages)

\* Number of positions of seq that satisfy Test.
CountIn(seq, Test(_)) == Cardinality({p \in DOMAIN seq : Test(seq[p])})

IsPanicResult(r) == r.tool_name = "panic" /\ ~r.success

IsToolMessage(m) == m.role = "tool"

\* C5: when tasks of a turn with K calls panic, execute_tools still returns K
\* results: the result of every call that did not panic and one error result
\* per panicked call; the turn then appends K tool messages and the loop goes
\* on to its next iteration without returning.
C5_PanicIsolated ==
    /\ (pc = "join" /\ \A i \in DOMAIN set : set[i] = "joined") =>
        /\ Len(results) = Len(tool_calls)
        /\ \A i \in DOMAIN tool_calls :
            ~Panics(tool_calls[i]) =>
                \E j \in DOMAIN results :
                    /\ results[j].tool_call_id = tool_calls[i].id
                    /\ results[j].output = RegistryExecute(tool_calls[i].name).for_llm
        /\ CountIn(results, IsPanicResult) = CountIn(tool_calls, Panics)
    /\ TurnAppended =>
        /\ CountIn(LastK(messages, Len(tool_calls)), IsToolMessage) = Len(tool_calls)
        /\ CountIn(LastK(session.messages, Len(tool_calls)), IsToolMessage) = Len(tool_calls)
        /\ messages[Len(messages) - Len(tool_calls)].role = "assistant"
        /\ ret = NoReturn

C5_Witness ==
    /\ TurnAppended
    /\ Len(tool_calls) >= 2
    /\ CountIn(tool_calls, Panics) = 1

\* The error text a failing call must hand to the model.
IsErrorCall(tc) == tc.name \notin Registry \/ tc.name = "fail"

ErrorText(tc) ==
    IF tc.name \notin Registry THEN "tool '" \o tc.name \o "' not found"
    ELSE "command failed"

\* Positions of the live message list that hold the error text of a failing
\* call of this run.
ErrorMessagePositions ==
    { p \in DOMAIN messages :
        /\ messages[p].role = "tool"
        /\ \E q \in 1..(p - 1) : \E c \in DOMAIN messages[q].tool_calls :
            /\ messages[q].tool_calls[c].id = messages[p].tool_call_id
            /\ IsErrorCall(messages[q].tool_calls[c])
            /\ messages[p].content = ErrorText(messages[q].tool_calls[c]) }

SeenByLLM(p) ==
    \E j \in DOMAIN chat_log :
        /\ Len(chat_log[j].messages) >= p
        /\ chat_log[j].messages[p] = messages[p]

\* A failing call of the turn just completed has its tool message.
ErrorCallsAnswered ==
    TurnAppended =>
        /\ ret = NoReturn
        /\ \A i \in DOMAIN tool_calls :
            IsErrorCall(tool_calls[i]) =>
                \E p \in ErrorMessagePositions :
                    /\ p > Len(messages) - Len(tool_calls)
                    /\ messages[p].tool_call_id = tool_calls[i].id

\* An error return of the run comes from the transport alone.
ErrOnlyFromTransport ==
    ret.tag = "Err" => chat_log[Len(chat_log)].outcome.tag = "Err"

ChatStreamReturned == cs_pc \in {"ok", "err"}

EventTypes(seq) == {seq[i].type : i \in DOMAIN seq}

\* chat_stream has ended after an Error event and without a Done event.
ErrorWithoutDone ==
    /\ ChatStreamReturned
    /\ "Error" \in EventTypes(sent)
    /\ "Done" \notin EventTypes(sent)

\* C7: in streaming mode, when the transport call of an iteration ends with
\* an Error event and no Done event, the loop's wait for the response ends
\* with an error: it does not return a response, and as long as it has not
\* returned the error a step that leads there remains possible (it never
\* waits forever).
C7_StreamErrorReturned ==
    ErrorWithoutDone =>
        /\ main_pc # "got"
        /\ main_pc = "err" \/ ENABLED NextStream

\* C8: for every execution of chat_stream the events sent to the sink hold
\* exactly one terminal event (Done or Error), and it is the last one sent.
C8_OneTerminalEventLast ==
    ChatStreamReturned =>
        /\ Cardinality({i \in DOMAIN sent : IsTerminal(sent[i])}) = 1
        /\ IsTerminal(sent[Len(sent)])

IsTokenLine(line) ==
    /\ line.kind = "data"
    /\ line.content # None
    /\ line.tool_calls = <<>>
    /\ line.finish_reason = None
    /\ line.usage = None

\* The body was N token frames followed by the [DONE] line, all received.
TokenFramesThenDone ==
    /\ cs_pc = "ok"
    /\ wire # <<>>
    /\ wire[Len(wire)].kind = "done"
    /\ \A i \in 1..(Len(wire) - 1) : IsTokenLine(wire[i])

\* The content fragments of the token frames of the body, in frame order.
Fragments == [i \in 1..(Len(wire) - 1) |-> wire[i].content]

RECURSIVE Concat(_)
Concat(strs) == IF strs = <<>> THEN "" ELSE Head(strs) \o Concat(Tail(strs))

NonEmpty(str) == str # ""

TokensThenDone(frags) ==
    /\ Len(sent) = Len(frags) + 1
    /\ \A i \in DOMAIN frags : sent[i] = Token(frags[i])
    /\ sent[Len(sent)].type = "Done"
    /\ sent[Len(sent)].response.content = Concat(Fragments)

\* C9 as claimed: N token frames followed by [DONE] yield exactly N Token
\* events in frame order, then exactly one Done event whose content is the
\* concatenation of the N fragments, and nothing after it.
C9_TokenPerFrame == TokenFramesThenDone => TokensThenDone(Fragments)

\* C9 amended: one Token event per frame whose content fragment is not
\* empty (a frame with an empty content yields no event).
C9_TokenPerNonEmptyFrame ==
    TokenFramesThenDone => TokensThenDone(SelectSeq(Fragments, NonEmpty))

C9_Witness ==
    /\ cs_pc = "ok"
    /\ wire = <<TokenLine("a"), TokenLine(""), TokenLine("b"), DoneLine>>

\* The tool-call fragments of the lines of `lines`, in arrival order.
RECURSIVE FragmentsOf(_)
FragmentsOf(lines) ==
    IF lines = <<>> THEN <<>>
    ELSE (IF Head(lines).kind = "data" THEN Head(lines).tool_calls ELSE <<>>)
         \o FragmentsOf(Tail(lines))

\* What the fragments `frags` say about index k: the last id and the last
\* name that were present ("" when none was), the argument fragments joined
\* in arrival order.
ExpectedCall(frags, k) ==
    LET mine == {i \in DOMAIN frags : IndexOf(frags[i]) = k}
        withId == {i \in mine : frags[i].id # None}
        withName == {i \in mine : frags[i].name # None}
        Last(S) == CHOOSE i \in S : \A j \in S : j <= i
        args == [i \in DOMAIN frags |->
                    IF i \in mine THEN ArgsFragment(frags[i]) ELSE ""]
    IN  [id |-> IF withId = {} THEN "" ELSE frags[Last(withId)].id,
         call_type |-> "function",
         name |-> IF withName = {} THEN "" ELSE frags[Last(withName)].name,
         arguments |-> Concat(args)]

\* `calls` holds one call per distinct index of `frags`, by ascending index.
OneCallPerIndexAscending(calls, frags) ==
    LET indexes == {IndexOf(frags[i]) : i \in DOMAIN frags}
        Nth(j) == CHOOSE k \in indexes :
                    Cardinality({x \in indexes : x < k}) = j - 1
    IN  /\ Len(calls) = Cardinality(indexes)
        /\ \A j \in DOMAIN calls : calls[j] = ExpectedCall(frags, Nth(j))

\* C10: tool-call fragments are accumulated per index (id and name overwrite
\* the stored ones only when present, argument fragments are joined in
\* arrival order), and the Done response sent at the [DONE] line carries one
\* tool call per distinct index, in ascending index order, whatever the order
\* in which fragments of different indexes arrived.
C10_ToolCallsReconstructed ==
    (wire # <<>> /\ wire[Len(wire)].kind = "done") =>
        \A i \in DOMAIN sent :
            sent[i].type = "Done" =>
                OneCallPerIndexAscending(sent[i].response.tool_calls,
                                         FragmentsOf(wire))

C10_Witness ==
    /\ cs_pc = "ok"
    /\ wire = <<ToolCallLine(<<FragHead1>>), ToolCallLine(<<FragHead0>>),
                ToolCallLine(<<FragReId0>>), DoneLine>>
    /\ Len(sent[Len(sent)].response.tool_calls) = 2

(***************************************************************************)
(* Properties of the end of the body without the [DONE] line (SpecStream)  *)
(***************************************************************************)
\* process_sse_stream has returned and no [DONE] line was handled.
EndedWithoutDoneMarker ==
    /\ cs_pc = "ok"
    /\ \A i \in DOMAIN wire : wire[i].kind # "done"

\* The content fragments of the handled lines, in arrival order.
ContentsOf(lines) ==
    [i \in DOMAIN lines |->
        IF lines[i].kind = "data" /\ lines[i].content # None
        THEN lines[i].content ELSE ""]

\* Some text or some tool-call fragment was accumulated from the handled lines.
SomethingAccumulated ==
    Concat(ContentsOf(wire)) # "" \/ FragmentsOf(wire) # <<>>

\* C11: when the body ends without the [DONE] line and text or tool-call
\* fragments were accumulated, a Done event is sent, it is the last event
\* sent, and its response holds the accumulated text and one tool call per
\* accumulated index: what was accumulated is not dropped.
C11_TailFlushedAsDone ==
    (EndedWithoutDoneMarker /\ SomethingAccumulated) =>
        /\ sent # <<>>
        /\ sent[Len(sent)].type = "Done"
        /\ Cardinality({i \in DOMAIN sent : sent[i].type = "Done"}) = 1
        /\ sent[Len(sent)].response.content = Concat(ContentsOf(wire))
        /\ OneCallPerIndexAscending(sent[Len(sent)].response.tool_calls,
                                    FragmentsOf(wire))

C11_Witness ==
    /\ EndedWithoutDoneMarker
    /\ wire = <<TokenLine("a"), ToolCallLine(<<FragHead0>>), TokenLine("b")>>
    /\ sent[Len(sent)].type = "Done"
    /\ sent[Len(sent)].response.content = "ab"

(***************************************************************************)
(* Properties of the forwarding task (SpecStream)                          *)
(***************************************************************************)
IsPrefix(s, t) == Len(s) <= Len(t) /\ \A i \in DOMAIN s : s[i] = t[i]

\* C12: in streaming mode the events reach the caller's sink in emission
\* order, and every Token and ToolCallDelta event the transport has emitted
\* is delivered to the sink as it arrives: by the time the transport call of
\* the iteration has completed, each of them is in the sink.
C12_DeliveredAsEmitted ==
    /\ IsPrefix(sink, sent)
    /\ ChatStreamReturned =>
        \A i \in DOMAIN sent : ~IsTerminal(sent[i]) => i <= Len(sink)

(***************************************************************************)
(* Properties of the attempt loop (SpecRetry)                              *)
(***************************************************************************)
\* The attempt is one the claim allows to be retried: a connection error or
\* a status of 5xx or 429.
TransientFailure(outcome) ==
    \/ outcome.kind = "network"
    \/ outcome.kind = "response" /\ (outcome.status \in 500..599 \/ outcome.status = 429)

\* The attempt got a non-success status that is not transient.
FatalStatus(outcome) ==
    /\ outcome.kind = "response"
    /\ outcome.status \notin 200..299
    /\ ~TransientFailure(outcome)

\* The attempt got a success status and a body that is no completion.
MalformedSuccess(outcome) ==
    /\ outcome.kind = "response"
    /\ outcome.status \in 200..299
    /\ outcome.body.readable
    /\ outcome.body # Completion

LastAttempt == rt_log[Len(rt_log)]

\* Every attempt that was followed by another one failed transiently.
OnlyTransientRetried ==
    \A i \in 1..(Len(rt_log) - 1) : TransientFailure(rt_log[i])

\* C13: an attempt is followed by another one only when it failed with a
\* connection error or a status of 5xx or 429; any other non-success status,
\* and a success status with a malformed body, ends the call with an error
\* after that attempt, for chat and for chat_stream.
C13_RetryOnlyTransient ==
    /\ OnlyTransientRetried
    /\ (rt_pc = "attempt" /\ rt_log # <<>>) => TransientFailure(LastAttempt)
    /\ (rt_pc = "returned" /\ (FatalStatus(LastAttempt) \/ MalformedSuccess(LastAttempt))) =>
        rt_ret.tag = "Err"

\* The attempt got a success status and a well-formed completion.
GoodSuccess(outcome) ==
    /\ outcome.kind = "response"
    /\ outcome.status \in 200..299
    /\ outcome.body = Completion

AllTransient(log) == \A i \in DOMAIN log : TransientFailure(log[i])

\* C14: with max_retries = R a call makes at most R + 1 attempts; when the
\* server answers k transient failures and then a success, the call returns
\* the successful response if k <= R, and if the first R + 1 attempts all
\* fail transiently it returns an error after exactly R + 1 attempts.
C14_AtMostRPlusOneAttempts ==
    /\ Len(rt_log) <= rt_max + 1
    /\ rt_pc = "attempt" => (rt_attempt = Len(rt_log) /\ rt_attempt <= rt_max)
    /\ rt_pc = "returned" =>
        LET k == Len(rt_log) - 1 IN
        /\ (AllTransient(SubSeq(rt_log, 1, k)) /\ GoodSuccess(LastAttempt)) =>
            /\ k <= rt_max
            /\ rt_ret = IF rt_fn = "chat" THEN RetOk(LastAttempt.body.text)
                        ELSE RetOk("()")
        /\ AllTransient(rt_log) =>
            /\ Len(rt_log) = rt_max + 1
            /\ rt_ret.tag = "Err"

\* Three 503 answers, then a 200 with a completion, under max_retries = 3.
C14_Witness ==
    /\ rt_pc = "returned"
    /\ rt_fn = "chat"
    /\ rt_max = 3
    /\ rt_log = <<HttpResponse(503, NotJson), HttpResponse(503, NotJson),
                  HttpResponse(503, NotJson), HttpResponse(200, Completion)>>
    /\ rt_ret = RetOk("hi")

\* The error the claim expects for a failed attempt of chat: its status and
\* body, or its network error.
ObservedError(outcome) ==
    IF outcome.kind = "network" THEN outcome.error
    ELSE "LLM API error (" \o ToString(outcome.status) \o "): "
         \o (IF outcome.body.readable THEN outcome.body.text
             ELSE "could not read body")

\* C15: when all max_retries + 1 attempts of chat failed transiently, chat
\* returns the error of the last attempt, not that of an earlier one and not
\* a generic one.
C15_LastErrorReturned ==
    (rt_pc = "returned" /\ rt_fn = "chat" /\ Len(rt_log) = rt_max + 1
        /\ AllTransient(rt_log)) =>
        rt_ret = RetErr(ObservedError(LastAttempt))

C15_Witness ==
    /\ rt_pc = "returned"
    /\ rt_fn = "chat"
    /\ rt_max = 2
    /\ rt_log = <<HttpResponse(503, NotJson), NetworkError("connection refused"),
                  HttpResponse(429, Unreadable)>>
    /\ rt_ret = RetErr("LLM API error (429): could not read body")

(***************************************************************************)
(* session.rs : SessionManager, save_session and load_session for one      *)
(* session key, with the files of the sessions directory                   *)
(***************************************************************************)
\* add_message, set_summary and clear calls of the modelled execution
MaxStoreCalls == 2

\* The session key of the modelled calls, character by character.
SessionKey == <<"a", ":", "b">>

\* Lines 144-148: '/', '\', ':' and '|' become '_'.
SafeChar(c) == IF c \in {"/", "\\", ":", "|"} THEN "_" ELSE c

SessionPath(key) == Concat([i \in DOMAIN key |-> SafeChar(key[i])]) \o ".json"

\* Line 157: path.with_extension("json.tmp")
TmpPath(path) == path \o ".tmp"

\* serde_json::to_string_pretty(data), as a sequence of tokens.
Tok(t, v) == [t |-> t, v |-> v]

Serialize(data) ==
    <<Tok("{", "")>>
    \o [i \in DOMAIN data.messages |-> Tok("message", data.messages[i])]
    \o <<Tok("summary", data.summary), Tok("}", "")>>

\* serde_json::from_str accepts exactly one complete document.
WellFormed(content) ==
    /\ Len(content) >= 3
    /\ content[1].t = "{"
    /\ content[Len(content)].t = "}"
    /\ content[Len(content) - 1].t = "summary"
    /\ \A i \in 2..(Len(content) - 2) : content[i].t = "message"

Deserialize(content) ==
    [messages |-> [i \in 1..(Len(content) - 3) |-> content[i + 1].v],
     summary |-> content[Len(content) - 1].v]

\* write_all from offset 0 on a file that holds `old`.
Overwrite(old, new) ==
    IF Len(new) >= Len(old) THEN new
    ELSE new \o SubSeq(old, Len(new) + 1, Len(old))

\* The inode numbers in use: those a path names and those an open file
\* descriptor of a save task refers to.
UsedInodes(dir, saves) ==
    {dir[p] : p \in DOMAIN dir} \cup {s.fd : s \in {t \in saves : t.fd # 0}}

FreshInode(dir, saves) ==
    CHOOSE n \in 1..(Cardinality(UsedInodes(dir, saves)) + 1) :
        n \notin UsedInodes(dir, saves)

\* The inodes still reachable; the others are released by the file system.
Reachable(inodes, dir, saves) ==
    [n \in DOMAIN inodes \cap UsedInodes(dir, saves) |-> inodes[n]]

RemovePath(dir, p) == [q \in DOMAIN dir \ {p} |-> dir[q]]

\* The entry of the key in the cache: <<>> when there is none.
EntryOrDefault(cache) == IF cache = <<>> THEN DefaultSession ELSE cache[1]

\* The task spawned by add_message and set_summary: save_session(path, data).
SaveTask(data) == [stage |-> "open", data |-> data, fd |-> 0]

ThePath == SessionPath(SessionKey)

TheTmpPath == TmpPath(ThePath)

\* Lines 48-63: under the write lock the message is pushed on the entry
\* (created by or_default when missing) and a save of the clone is spawned.
StoreAddMessage ==
    /\ st_calls < MaxStoreCalls
    /\ st_clear_pc = "idle"
    /\ LET m == "m" \o ToString(st_calls + 1)
           data == AddMessage(EntryOrDefault(st_cache), m)
       IN  /\ st_cache' = <<data>>
           /\ st_saves' = st_saves \cup {SaveTask(data)}
           /\ st_added' = Append(st_added, m)
           /\ st_held' = st_held \cup {data}
    /\ st_calls' = st_calls + 1
    /\ st_only_adds' = (st_only_adds /\ st_get.pc = "idle")
    /\ st_get' = [st_get EXCEPT !.after_clear = FALSE]
    /\ st_cleared' = FALSE
    /\ st_persisted' = <<>>
    /\ UNCHANGED st_save_failed
    /\ UNCHANGED <<st_dir, st_inodes, st_clear_pc, st_msgs_ret, st_sum_ret,
                   st_restarted>>
    /\ UNCHANGED exceptStore

\* Lines 100-113.
StoreSetSummary ==
    /\ st_calls < MaxStoreCalls
    /\ st_clear_pc = "idle"
    /\ LET data == SetSummary(EntryOrDefault(st_cache), "s" \o ToString(st_calls + 1))
       IN  /\ st_cache' = <<data>>
           /\ st_saves' = st_saves \cup {SaveTask(data)}
           /\ st_held' = st_held \cup {data}
    /\ st_calls' = st_calls + 1
    /\ st_get' = [st_get EXCEPT !.after_clear = FALSE]
    /\ st_cleared' = FALSE
    /\ st_persisted' = <<>>
    /\ UNCHANGED st_save_failed
    /\ UNCHANGED <<st_dir, st_inodes, st_clear_pc, st_msgs_ret, st_sum_ret,
                   st_added, st_only_adds, st_restarted>>
    /\ UNCHANGED exceptStore

\* Line 159, first half: tokio::fs::write opens the temp path, creating the
\* file or truncating the one that is there.
SaveOpen(s) ==
    /\ s \in st_saves
    /\ s.stage = "open"
    /\ LET n == IF TheTmpPath \in DOMAIN st_dir THEN st_dir[TheTmpPath]
                ELSE FreshInode(st_dir, st_saves)
       IN  /\ st_dir' = [p \in DOMAIN st_dir \cup {TheTmpPath} |->
                            IF p = TheTmpPath THEN n ELSE st_dir[p]]
           /\ st_inodes' = [i \in DOMAIN st_inodes \cup {n} |->
                               IF i = n THEN <<>> ELSE st_inodes[i]]
           /\ st_saves' = (st_saves \ {s}) \cup {[s EXCEPT !.stage = "write", !.fd = n]}
    /\ UNCHANGED st_save_failed
    /\ UNCHANGED <<st_cache, st_get, st_clear_pc, st_calls, st_msgs_ret,
                   st_sum_ret, st_added, st_only_adds, st_held, st_cleared,
                   st_restarted, st_persisted>>
    /\ UNCHANGED exceptStore

\* Line 159, second half: the content is written through the open file and
\* the file is closed.
SaveWrite(s) ==
    /\ s \in st_saves
    /\ s.stage = "write"
    /\ LET saves == (st_saves \ {s}) \cup {[s EXCEPT !.stage = "rename", !.fd = 0]}
           written == [st_inodes EXCEPT ![s.fd] = Overwrite(@, Serialize(s.data))]
       IN  /\ st_saves' = saves
           /\ st_inodes' = Reachable(written, st_dir, saves)
    /\ UNCHANGED st_save_failed
    /\ UNCHANGED <<st_cache, st_dir, st_get, st_clear_pc, st_calls, st_msgs_ret,
                   st_sum_ret, st_added, st_only_adds, st_held, st_cleared,
                   st_restarted, st_persisted>>
    /\ UNCHANGED exceptStore

\* Line 160: rename(tmp_path, path); it fails when the temp path names no
\* file, and the task ends either way.
SaveRename(s) ==
    /\ s \in st_saves
    /\ s.stage = "rename"
    /\ LET saves == st_saves \ {s}
           dir == IF TheTmpPath \in DOMAIN st_dir
                  THEN [p \in (DOMAIN st_dir \ {TheTmpPath}) \cup {ThePath} |->
                           IF p = ThePath THEN st_dir[TheTmpPath] ELSE st_dir[p]]
                  ELSE st_dir
       IN  /\ st_saves' = saves
           /\ st_dir' = dir
           /\ st_inodes' = Reachable(st_inodes, dir, saves)
    /\ UNCHANGED <<st_cache, st_get, st_clear_pc, st_calls, st_msgs_ret,
                   st_sum_ret, st_added, st_only_adds, st_held, st_cleared,
                   st_restarted, st_persisted>>
    /\ st_save_failed' = (st_save_failed \/ TheTmpPath \notin DOMAIN st_dir)
    /\ UNCHANGED exceptStore

\* Lines 59-61: a step of save_session fails with an I/O error; the error is
\* logged and the task ends.
SaveFails(s) ==
    /\ s \in st_saves
    /\ LET saves == st_saves \ {s} IN
        /\ st_saves' = saves
        /\ st_inodes' = Reachable(st_inodes, st_dir, saves)
    /\ UNCHANGED <<st_cache, st_dir, st_get, st_clear_pc, st_calls, st_msgs_ret,
                   st_sum_ret, st_added, st_only_adds, st_held, st_cleared,
                   st_restarted, st_persisted>>
    /\ st_save_failed' = TRUE
    /\ UNCHANGED exceptStore

\* get_messages (and message_count, its length) returns value.
GetMessagesReturn(value, floor, after_clear) ==
    /\ st_msgs_ret' = [done |-> TRUE, value |-> value, floor |-> floor,
                       quiet |-> st_only_adds, after_clear |-> after_clear]
    /\ st_get' = ReaderIdle

\* Lines 68-73: the cache is looked up under the read lock.
GetMessagesBegin ==
    /\ st_get.pc = "idle"
    /\ IF st_cache # <<>>
       THEN GetMessagesReturn(st_cache[1].messages, st_added, st_cleared)
       ELSE /\ st_get' = [pc |-> "exists", data |-> DefaultSession,
                          floor |-> st_added, after_clear |-> st_cleared]
            /\ st_msgs_ret' = NoResult
    /\ UNCHANGED st_save_failed
    /\ UNCHANGED <<st_cache, st_dir, st_inodes, st_saves, st_clear_pc, st_calls,
                   st_sum_ret, st_added, st_only_adds, st_held, st_cleared,
                   st_restarted, st_persisted>>
    /\ UNCHANGED exceptStore

\* Lines 76-77 and 90: path.exists().
GetMessagesExists ==
    /\ st_get.pc = "exists"
    /\ IF ThePath \in DOMAIN st_dir
       THEN /\ st_get' = [st_get EXCEPT !.pc = "load"]
            /\ UNCHANGED st_msgs_ret
       ELSE GetMessagesReturn(<<>>, st_get.floor, st_get.after_clear)
    /\ UNCHANGED st_save_failed
    /\ UNCHANGED <<st_cache, st_dir, st_inodes, st_saves, st_clear_pc, st_calls,
                   st_sum_ret, st_added, st_only_adds, st_held, st_cleared,
                   st_restarted, st_persisted>>
    /\ UNCHANGED exceptStore

\* Lines 78-80 and 84-90: load_session reads and parses the file; a failure
\* is logged and the call returns no messages.
GetMessagesLoad ==
    /\ st_get.pc = "load"
    /\ IF ThePath \in DOMAIN st_dir /\ WellFormed(st_inodes[st_dir[ThePath]])
       THEN /\ st_get' = [st_get EXCEPT !.pc = "insert",
                              !.data = Deserialize(st_inodes[st_dir[ThePath]])]
            /\ UNCHANGED st_msgs_ret
       ELSE GetMessagesReturn(<<>>, st_get.floor, st_get.after_clear)
    /\ UNCHANGED st_save_failed
    /\ UNCHANGED <<st_cache, st_dir, st_inodes, st_saves, st_clear_pc, st_calls,
                   st_sum_ret, st_added, st_only_adds, st_held, st_cleared,
                   st_restarted, st_persisted>>
    /\ UNCHANGED exceptStore

\* Lines 81-82: the loaded data is inserted under the write lock.
GetMessagesInsert ==
    /\ st_get.pc = "insert"
    /\ st_cache' = <<st_get.data>>
    /\ st_held' = st_held \cup {st_get.data}
    /\ GetMessagesReturn(st_get.data.messages, st_get.floor, st_get.after_clear)
    /\ UNCHANGED st_save_failed
    /\ UNCHANGED <<st_dir, st_inodes, st_saves, st_clear_pc, st_calls,
                   st_sum_ret, st_added, st_only_adds, st_cleared,
                   st_restarted, st_persisted>>
    /\ UNCHANGED exceptStore

\* Lines 94-97: the summary of the cache entry, "" when there is none.
GetSummary ==
    /\ st_sum_ret' = <<IF st_cache = <<>> THEN "" ELSE st_cache[1].summary>>
    /\ UNCHANGED st_save_failed
    /\ UNCHANGED <<st_cache, st_dir, st_inodes, st_saves, st_get, st_clear_pc,
                   st_calls, st_msgs_ret, st_added, st_only_adds, st_held,
                   st_cleared, st_restarted, st_persisted>>
    /\ UNCHANGED exceptStore

\* Line 122: the entry is removed under the write lock.
ClearBegin ==
    /\ st_calls < MaxStoreCalls
    /\ st_clear_pc = "idle"
    /\ st_cache' = <<>>
    /\ st_clear_pc' = "remove_file"
    /\ st_calls' = st_calls + 1
    /\ st_added' = <<>>
    /\ st_only_adds' = FALSE
    /\ st_get' = [st_get EXCEPT !.floor = <<>>, !.after_clear = FALSE]
    /\ st_cleared' = FALSE
    /\ st_persisted' = <<>>
    /\ UNCHANGED st_save_failed
    /\ UNCHANGED <<st_dir, st_inodes, st_saves, st_msgs_ret, st_sum_ret,
                   st_held, st_restarted>>
    /\ UNCHANGED exceptStore

\* Lines 123-124: remove_file(path), its result ignored; clear returns.
ClearRemoveFile ==
    /\ st_clear_pc = "remove_file"
    /\ LET dir == RemovePath(st_dir, ThePath) IN
        /\ st_dir' = dir
        /\ st_inodes' = Reachable(st_inodes, dir, st_saves)
    /\ st_clear_pc' = "idle"
    /\ st_cleared' = TRUE
    /\ UNCHANGED st_save_failed
    /\ UNCHANGED <<st_cache, st_saves, st_get, st_calls, st_msgs_ret,
                   st_sum_ret, st_added, st_only_adds, st_held, st_restarted,
                   st_persisted>>
    /\ UNCHANGED exceptStore

\* The process ends at this point (a crash or an exit) and a new one creates
\* a SessionManager over the same directory (lines 39-45): the files stay,
\* the cache and every task are gone.
Restart ==
    /\ ~st_restarted
    /\ st_restarted' = TRUE
    /\ st_cache' = <<>>
    /\ st_saves' = {}
    /\ st_inodes' = Reachable(st_inodes, st_dir, {})
    /\ st_get' = ReaderIdle
    /\ st_clear_pc' = "idle"
    /\ st_msgs_ret' = NoResult
    /\ st_sum_ret' = <<>>
    /\ st_added' = <<>>
    /\ st_only_adds' = FALSE
    /\ st_cleared' = FALSE
    /\ st_persisted' =
        IF ThePath \in DOMAIN st_dir /\ WellFormed(st_inodes[st_dir[ThePath]])
        THEN <<Deserialize(st_inodes[st_dir[ThePath]])>>
        ELSE <<>>
    /\ UNCHANGED <<st_dir, st_calls, st_held>>
    /\ st_save_failed' = FALSE
    /\ UNCHANGED exceptStore

InitStore ==
    /\ LocksIdle
    /\ RunsIdle
    /\ KeysIdle
    /\ LoopIdle /\ StreamIdle /\ RetryIdle /\ StoreIdle /\ LimiterIdle /\ GatewayIdle
    /\ SubagentIdle /\ RouterIdle /\ RequestIdle

NextStore ==
    \/ StoreAddMessage
    \/ StoreSetSummary
    \/ \E s \in st_saves : SaveOpen(s)
    \/ \E s \in st_saves : SaveWrite(s)
    \/ \E s \in st_saves : SaveRename(s)
    \/ \E s \in st_saves : SaveFails(s)
    \/ GetMessagesBegin
    \/ GetMessagesExists
    \/ GetMessagesLoad
    \/ GetMessagesInsert
    \/ GetSummary
    \/ ClearBegin
    \/ ClearRemoveFile
    \/ Restart

SpecStore == InitStore /\ [][NextStore]_vars

(***************************************************************************)
(* Properties of the session store (SpecStore)                             *)
(***************************************************************************)
Range(seq) == {seq[i] : i \in DOMAIN seq}

\* C16: on a key that starts empty, a get_messages call made after N
\* add_message calls have returned (no clear was called and no add_message
\* ran while a get_messages call was in progress) returns exactly the N
\* messages in call order, so message_count returns N, whatever the
\* background saves have done so far.
C16_CountEqualsAdds ==
    (st_msgs_ret.done /\ st_msgs_ret.quiet) =>
        /\ st_msgs_ret.value = st_msgs_ret.floor
        /\ Len(st_msgs_ret.value) = Len(st_msgs_ret.floor)

C16_Witness ==
    /\ st_msgs_ret.done
    /\ st_msgs_ret.quiet
    /\ st_msgs_ret.value = <<"m1", "m2">>
    /\ st_saves # {}

\* C17: once add_message(k, m) has returned, every get_messages(k) call that
\* begins later returns a sequence containing m, until clear(k) is called,
\* whatever the background saves and concurrent get_messages calls do.
C17_AddedMessageVisible ==
    st_msgs_ret.done => Range(st_msgs_ret.floor) \subseteq Range(st_msgs_ret.value)

\* C18: after clear(k) has returned (and before another add_message or
\* set_summary call) the cache has no entry and no file for k exists, and a
\* get_messages call made then returns the empty sequence, also when a save
\* spawned by an earlier add_message has not yet ended.
C18_ClearedStaysCleared ==
    /\ st_cleared => (st_cache = <<>> /\ ThePath \notin DOMAIN st_dir)
    /\ (st_msgs_ret.done /\ st_msgs_ret.after_clear) => st_msgs_ret.value = <<>>

\* C19: at every moment the file at the session's final path is absent or
\* holds the complete serialization of one state the cache has held.
C19_FinalFileComplete ==
    ThePath \in DOMAIN st_dir =>
        \E data \in st_held : st_inodes[st_dir[ThePath]] = Serialize(data)

\* C20: when a session with messages M and summary S is persisted, a
\* SessionManager with an empty cache over the same directory returns M from
\* get_messages and S from get_summary, whichever is called first.
C20_RoundTrip ==
    st_persisted # <<>> =>
        /\ st_msgs_ret.done => st_msgs_ret.value = st_persisted[1].messages
        /\ st_sum_ret # <<>> => st_sum_ret[1] = st_persisted[1].summary

(***************************************************************************)
(* RateLimiter (agent/mod.rs): a sliding window of accepted calls per key  *)
(***************************************************************************)

\* config.gateway.rate_limit_requests ranges over 0..MaxRequests
MaxRequests == 2
\* config.gateway.rate_limit_seconds, in ticks of the clock
WindowTicks == 2
\* the clock stops at MaxClock
MaxClock == 4
\* calls of check_rate_limit per behaviour
MaxChecks == 4

\* The keys the limiter is asked about (sender ids)
Keys == {"u1", "u2"}

\* entries.retain(|&t| now.duration_since(t) < self.window)
Retain(entries, now) == SelectSeq(entries, LAMBDA t : now - t < WindowTicks)

LimitReachedAbove(entries) == Len(entries) > lim_max

\* entries.len() as u64 >= self.max_requests
LimitReached(entries) == Len(entries) >= lim_max

UnlimitedNever == FALSE

\* self.max_requests == 0, tested before the lock is taken
Unlimited == lim_max = 0

\* history.entry(key.to_string()).or_default()
Entries(history, key) == IF key \in DOMAIN history THEN history[key] ELSE <<>>

\* Mutant: one list of timestamps for all keys.
WithEntriesShared(history, key, entries) ==
    [k \in DOMAIN history \cup {key} |-> entries]

\* map `history` with `entries` under `key`
WithEntries(history, key, entries) ==
    [k \in DOMAIN history \cup {key} |->
        IF k = key THEN entries ELSE history[k]]

\* The part of check_rate_limit that runs under the lock, at time `now`:
\* the result and the map it leaves.
CheckRateLimit(history, key, now) ==
    LET entries == Retain(Entries(history, key), now)
    IN  IF LimitReached(entries)
        THEN [ok |-> FALSE, history |-> WithEntries(history, key, entries)]
        ELSE [ok |-> TRUE,
              history |-> WithEntries(history, key, Append(entries, now))]

\* A returned call
Checked(key, at, ok) == [key |-> key, at |-> at, ok |-> ok]

ChecksStarted == Len(lim_log) + Cardinality({c \in Callers : lim_pc[c] # "idle"})

\* check_rate_limit with max_requests == 0: `return true` without the lock
CheckUnlimited(c, key) ==
    /\ lim_pc[c] = "idle"
    /\ ChecksStarted < MaxChecks
    /\ Unlimited
    /\ lim_log' = Append(lim_log, Checked(key, lim_now, TRUE))
    /\ UNCHANGED <<lim_max, lim_history, lim_now, lim_pc, lim_key>>
    /\ UNCHANGED exceptLimiter

\* check_rate_limit up to `self.history.lock().await`
CheckBegin(c, key) ==
    /\ lim_pc[c] = "idle"
    /\ ChecksStarted < MaxChecks
    /\ ~Unlimited
    /\ lim_pc' = [lim_pc EXCEPT ![c] = "lock"]
    /\ lim_key' = [lim_key EXCEPT ![c] = key]
    /\ UNCHANGED <<lim_max, lim_history, lim_now, lim_log>>
    /\ UNCHANGED exceptLimiter

\* check_rate_limit from the lock to the return; the guard is dropped there
CheckLocked(c) ==
    /\ lim_pc[c] = "lock"
    /\ LET r == CheckRateLimit(lim_history, lim_key[c], lim_now)
       IN  /\ lim_history' = r.history
           /\ lim_log' = Append(lim_log, Checked(lim_key[c], lim_now, r.ok))
    /\ lim_pc' = [lim_pc EXCEPT ![c] = "idle"]
    /\ lim_key' = [lim_key EXCEPT ![c] = None]
    /\ UNCHANGED <<lim_max, lim_now>>
    /\ UNCHANGED exceptLimiter

\* Time passes: Instant::now() is monotonic.
Tick ==
    /\ lim_now < MaxClock
    /\ lim_now' = lim_now + 1
    /\ UNCHANGED <<lim_max, lim_history, lim_pc, lim_key, lim_log>>
    /\ UNCHANGED exceptLimiter

InitLimiter ==
    /\ LocksIdle
    /\ RunsIdle
    /\ KeysIdle
    /\ LoopIdle /\ StreamIdle /\ RetryIdle /\ StoreIdle /\ GatewayIdle
    /\ SubagentIdle /\ RouterIdle /\ RequestIdle
    /\ lim_max \in 0..MaxRequests
    /\ lim_history = <<>>
    /\ lim_now = 0
    /\ lim_pc = [c \in Callers |-> "idle"]
    /\ lim_key = [c \in Callers |-> None]
    /\ lim_log = <<>>

NextLimiter ==
    \/ \E c \in Callers, key \in Keys : CheckUnlimited(c, key)
    \/ \E c \in Callers, key \in Keys : CheckBegin(c, key)
    \/ \E c \in Callers : CheckLocked(c)
    \/ Tick

SpecLimiter == InitLimiter /\ [][NextLimiter]_vars

\* The calls before call i that were accepted for the same key and lie
\* within the window that ends at call i
AcceptedInWindow(i) ==
    {j \in 1..(i - 1) : /\ lim_log[j].key = lim_log[i].key
                        /\ lim_log[j].ok
                        /\ lim_log[i].at - lim_log[j].at < WindowTicks}

\* C21: with a maximum M > 0, a call is rejected when M accepted calls of
\* its key lie within the trailing window, and accepted when fewer do - so
\* a key that was rejected is accepted again once the window has moved on.
C21_SlidingWindow ==
    lim_max > 0 =>
        \A i \in DOMAIN lim_log :
            lim_log[i].ok = (Cardinality(AcceptedInWindow(i)) < lim_max)

\* A key was rejected with M accepted calls in its window and accepted later.
C21_Witness ==
    /\ lim_max > 0
    /\ \E i, j \in DOMAIN lim_log :
        /\ i < j
        /\ lim_log[i].key = lim_log[j].key
        /\ ~lim_log[i].ok
        /\ Cardinality(AcceptedInWindow(i)) = lim_max
        /\ lim_log[j].ok

\* C22: with a maximum of 0 every call returns true, whatever the key, the
\* number of calls and their interleaving, and no timestamp is recorded.
C22_ZeroDisables ==
    lim_max = 0 =>
        /\ \A i \in DOMAIN lim_log : lim_log[i].ok
        /\ lim_history = <<>>

\* MaxChecks calls were made with a maximum of 0, on both keys.
C22_Witness ==
    /\ lim_max = 0
    /\ Len(lim_log) = MaxChecks
    /\ {lim_log[i].key : i \in DOMAIN lim_log} = Keys

(***************************************************************************)
(* AgentLoop::run (gateway mode) over the MessageBus                       *)
(***************************************************************************)

\* inbound messages the channels publish per behaviour
MaxInbound == 2
\* capacity of the outbound channels (mpsc::channel(100)), scaled down; no
\* task receives from the global outbound channel (subscribe_outbound has
\* no caller)
ChannelCap == 1

\* The channels with a handler registered in the bus (Gateway::run); "cron"
\* stands for a channel name no handler was registered for.
Registered == {"telegram"}

\* InboundMessage (media and metadata are left out)
Inbound(channel, sender) ==
    [channel |-> channel, sender_id |-> sender, chat_id |-> "chat-" \o sender,
     content |-> "hi", session_key |-> channel \o ":" \o sender]

InboundMessages ==
    {Inbound("telegram", "u1"), Inbound("telegram", "u2"), Inbound("cron", "u1")}

\* OutboundMessage (metadata is left out)
Outbound(channel, chat_id, content) ==
    [channel |-> channel, chat_id |-> chat_id, content |-> content]

RateLimitText == "Rate limit exceeded. Please wait a moment."

\* The message AgentLoop::run publishes for a rejected message
RateLimitNotice(msg) == Outbound(msg.channel, msg.chat_id, RateLimitText)

\* The message process_message publishes
Reply(msg, response) == Outbound(msg.channel, msg.chat_id, response)

\* What run_agent_loop can do for one message: fail at the first LLM call,
\* answer at once, or answer after one turn with one tool call.
LoopOutcomes == {"error", "answer", "tool_answer"}

\* The messages run_agent_loop appends to the session, by role
Appended(outcome) ==
    CASE outcome = "error" -> <<"user">>
      [] outcome = "answer" -> <<"user", "assistant">>
      [] outcome = "tool_answer" -> <<"user", "assistant", "tool", "assistant">>

LlmCalls(outcome) == IF outcome = "tool_answer" THEN 2 ELSE 1

ToolCalls(outcome) == IF outcome = "tool_answer" THEN 1 ELSE 0

History(key) == IF key \in DOMAIN gw_sessions THEN gw_sessions[key] ELSE <<>>

\* The record kept of one inbound message: what was published for it, and
\* the call counters and the session history before and after.
Handling(msg, ok) ==
    [msg |-> msg, ok |-> ok, done |-> FALSE,
     to_handler |-> <<>>, to_global |-> <<>>,
     llm0 |-> gw_llm_calls, llm1 |-> gw_llm_calls,
     tool0 |-> gw_tool_calls, tool1 |-> gw_tool_calls,
     hist0 |-> History(msg.session_key), hist1 |-> History(msg.session_key)]

Current == gw_handled[Len(gw_handled)]

SetCurrent(h) == [gw_handled EXCEPT ![Len(gw_handled)] = h]

AfterCheckNoGate(ok) == "process"

\* `if !check_rate_limit(..) { publish_outbound(notice); continue; }`
AfterCheck(ok) == IF ok THEN "process" ELSE "notice"

\* A channel publishes an inbound message (bus.publish_inbound).
PublishInbound(msg) ==
    /\ gw_arrived < MaxInbound
    /\ Len(gw_inbound) < ChannelCap
    /\ gw_arrived' = gw_arrived + 1
    /\ gw_inbound' = Append(gw_inbound, msg)
    /\ UNCHANGED <<gw_pc, gw_msg, gw_outbound, gw_handlers, gw_sessions,
                   gw_llm_calls, gw_tool_calls, gw_handled>>
    /\ UNCHANGED limVars
    /\ UNCHANGED exceptGateway

\* run: consume_inbound returns a message and check_rate_limit is called
\* with its sender id.
ConsumeInbound ==
    /\ gw_pc = "consume"
    /\ gw_inbound # <<>>
    /\ LET msg == Head(gw_inbound)
           r == IF Unlimited
                THEN [ok |-> TRUE, history |-> lim_history]
                ELSE CheckRateLimit(lim_history, msg.sender_id, lim_now)
       IN  /\ gw_msg' = <<msg>>
           /\ lim_history' = r.history
           /\ gw_pc' = AfterCheck(r.ok)
           /\ gw_handled' = Append(gw_handled, Handling(msg, r.ok))
    /\ gw_inbound' = Tail(gw_inbound)
    /\ UNCHANGED <<gw_arrived, gw_outbound, gw_handlers, gw_sessions,
                   gw_llm_calls, gw_tool_calls>>
    /\ UNCHANGED <<lim_max, lim_now, lim_pc, lim_key, lim_log>>
    /\ UNCHANGED exceptGateway

\* process_message: run_agent_loop ends with an error; run logs it.
ProcessFails ==
    /\ gw_pc = "process"
    /\ LET msg == gw_msg[1]
           hist == History(msg.session_key) \o Appended("error")
       IN  /\ gw_sessions' = [k \in DOMAIN gw_sessions \cup {msg.session_key} |->
                                IF k = msg.session_key THEN hist ELSE gw_sessions[k]]
           /\ gw_llm_calls' = gw_llm_calls + LlmCalls("error")
           /\ gw_handled' = SetCurrent([Current EXCEPT
                                !.done = TRUE,
                                !.llm1 = gw_llm_calls + LlmCalls("error"),
                                !.hist1 = hist])
    /\ gw_pc' = "consume"
    /\ gw_msg' = <<>>
    /\ UNCHANGED <<gw_arrived, gw_inbound, gw_outbound, gw_handlers, gw_tool_calls>>
    /\ UNCHANGED limVars
    /\ UNCHANGED exceptGateway

\* process_message: run_agent_loop returns the response; publish_outbound
\* is called with it.
ProcessAnswers(outcome) ==
    /\ gw_pc = "process"
    /\ outcome # "error"
    /\ LET msg == gw_msg[1]
           hist == History(msg.session_key) \o Appended(outcome)
       IN  /\ gw_sessions' = [k \in DOMAIN gw_sessions \cup {msg.session_key} |->
                                IF k = msg.session_key THEN hist ELSE gw_sessions[k]]
           /\ gw_llm_calls' = gw_llm_calls + LlmCalls(outcome)
           /\ gw_tool_calls' = gw_tool_calls + ToolCalls(outcome)
           /\ gw_handled' = SetCurrent([Current EXCEPT
                                !.llm1 = gw_llm_calls + LlmCalls(outcome),
                                !.tool1 = gw_tool_calls + ToolCalls(outcome),
                                !.hist1 = hist])
    /\ gw_pc' = "reply"
    /\ UNCHANGED <<gw_msg, gw_arrived, gw_inbound, gw_outbound, gw_handlers>>
    /\ UNCHANGED limVars
    /\ UNCHANGED exceptGateway

\* The message publish_outbound was called with
Publishing ==
    IF gw_pc \in {"notice", "notice_global"}
    THEN RateLimitNotice(gw_msg[1])
    ELSE Reply(gw_msg[1], "reply")

HandlerQueue(channel) ==
    IF channel \in DOMAIN gw_handlers THEN gw_handlers[channel] ELSE <<>>

\* publish_outbound, first half: `handler.send(msg.clone()).await` when a
\* handler is registered for the channel; the send waits while the
\* handler's channel is full.
PublishToHandler ==
    /\ gw_pc \in {"notice", "reply"}
    /\ LET out == Publishing
       IN  IF out.channel \in Registered
           THEN /\ Len(HandlerQueue(out.channel)) < ChannelCap
                /\ gw_handlers' =
                      [c \in DOMAIN gw_handlers \cup {out.channel} |->
                          IF c = out.channel
                          THEN Append(HandlerQueue(c), out)
                          ELSE gw_handlers[c]]
                /\ gw_handled' = SetCurrent([Current EXCEPT
                                     !.to_handler = Append(@, out)])
           ELSE UNCHANGED <<gw_handlers, gw_handled>>
    /\ gw_pc' = IF gw_pc = "notice" THEN "notice_global" ELSE "reply_global"
    /\ UNCHANGED <<gw_msg, gw_arrived, gw_inbound, gw_outbound, gw_sessions,
                   gw_llm_calls, gw_tool_calls>>
    /\ UNCHANGED limVars
    /\ UNCHANGED exceptGateway

\* publish_outbound, second half: `self.outbound_tx.send(msg).await`; the
\* send waits while the global outbound channel is full.  The loop goes
\* back to consume_inbound.
PublishToGlobal ==
    /\ gw_pc \in {"notice_global", "reply_global"}
    /\ Len(gw_outbound) < ChannelCap
    /\ gw_outbound' = Append(gw_outbound, Publishing)
    /\ gw_handled' = SetCurrent([Current EXCEPT
                         !.to_global = Append(@, Publishing), !.done = TRUE])
    /\ gw_pc' = "consume"
    /\ gw_msg' = <<>>
    /\ UNCHANGED <<gw_arrived, gw_inbound, gw_handlers, gw_sessions,
                   gw_llm_calls, gw_tool_calls>>
    /\ UNCHANGED limVars
    /\ UNCHANGED exceptGateway

\* The bridge task of a channel takes a message off its handler queue
\* (Gateway::run, `rx.recv().await`).
BridgeReceive(channel) ==
    /\ HandlerQueue(channel) # <<>>
    /\ gw_handlers' = [gw_handlers EXCEPT ![channel] = Tail(@)]
    /\ UNCHANGED <<gw_pc, gw_msg, gw_arrived, gw_inbound, gw_outbound,
                   gw_sessions, gw_llm_calls, gw_tool_calls, gw_handled>>
    /\ UNCHANGED limVars
    /\ UNCHANGED exceptGateway

\* Time passes.  The loop reads the clock only in check_rate_limit, so the
\* time that passes during the other steps is taken while it waits for a
\* message.
GatewayTick ==
    /\ gw_pc = "consume"
    /\ lim_now < MaxClock
    /\ lim_now' = lim_now + 1
    /\ UNCHANGED <<lim_max, lim_history, lim_pc, lim_key, lim_log>>
    /\ UNCHANGED gwVars
    /\ UNCHANGED exceptGateway

InitGateway ==
    /\ LocksIdle
    /\ RunsIdle
    /\ KeysIdle
    /\ LoopIdle /\ StreamIdle /\ RetryIdle /\ StoreIdle
    /\ SubagentIdle /\ RouterIdle /\ RequestIdle
    /\ lim_max \in 0..MaxRequests
    /\ lim_history = <<>>
    /\ lim_now = 0
    /\ lim_pc = [c \in Callers |-> "idle"]
    /\ lim_key = [c \in Callers |-> None]
    /\ lim_log = <<>>
    /\ gw_pc = "consume"
    /\ gw_msg = <<>>
    /\ gw_arrived = 0
    /\ gw_inbound = <<>>
    /\ gw_outbound = <<>>
    /\ gw_handlers = <<>>
    /\ gw_sessions = <<>>
    /\ gw_llm_calls = 0
    /\ gw_tool_calls = 0
    /\ gw_handled = <<>>

NextGateway ==
    \/ \E msg \in InboundMessages : PublishInbound(msg)
    \/ ConsumeInbound
    \/ ProcessFails
    \/ \E outcome \in LoopOutcomes : ProcessAnswers(outcome)
    \/ PublishToHandler
    \/ PublishToGlobal
    \/ \E channel \in Registered : BridgeReceive(channel)
    \/ GatewayTick

SpecGateway == InitGateway /\ [][NextGateway]_vars

\* What the handler of the message's channel is to receive for a rejection
NoticeForHandler(msg) ==
    IF msg.channel \in Registered THEN <<RateLimitNotice(msg)>> ELSE <<>>

\* C23: for an inbound message the limiter rejected, the loop makes no LLM
\* call and no tool call and leaves the history of the message's session
\* key as it was, and once it is back at consume_inbound it has published
\* exactly one message, the rate-limit notice addressed to the message's
\* channel and chat.
C23_RejectedBypassesLoop ==
    \A i \in DOMAIN gw_handled :
        LET h == gw_handled[i]
        IN  ~h.ok =>
              /\ h.llm1 = h.llm0
              /\ h.tool1 = h.tool0
              /\ h.hist1 = h.hist0
              /\ (i = Len(gw_handled) /\ gw_pc # "consume" =>
                    /\ gw_llm_calls = h.llm0
                    /\ gw_tool_calls = h.tool0
                    /\ History(h.msg.session_key) = h.hist0)
              /\ Len(h.to_global) <= 1
              /\ Len(h.to_handler) <= 1
              /\ h.done => /\ h.to_global = <<RateLimitNotice(h.msg)>>
                           /\ h.to_handler = NoticeForHandler(h.msg)

\* A message of a session with a history was rejected and its notice is
\* published.
C23_Witness ==
    \E i \in DOMAIN gw_handled :
        /\ ~gw_handled[i].ok
        /\ gw_handled[i].done
        /\ gw_handled[i].hist0 # <<>>
        /\ gw_handled[i].to_handler # <<>>

(***************************************************************************)
(* SubagentTool::execute (tool/subagent.rs): the shared depth counter      *)
(***************************************************************************)

\* const MAX_SUBAGENT_DEPTH
MAX_SUBAGENT_DEPTH == 3
\* calls of execute per behaviour
MaxSubCalls == 4

\* The caller of a call: 0 is a loop that was not started by the tool, c > 0
\* is the subagent loop that call c started.
TopLevel == 0

\* One call of execute.  `seen` is what fetch_add returned: the counter when
\* the call was made; `after` is the counter when the call returned.
SubCall(parent, stage, result) ==
    [parent |-> parent, pc |-> stage, seen |-> sub_depth, started |-> FALSE,
     result |-> result, after |-> sub_depth]

Running == {c \in DOMAIN sub_calls : sub_calls[c].pc = "running"}

\* The calls between their fetch_add and their fetch_sub
Counted == {c \in DOMAIN sub_calls : sub_calls[c].pc \in {"added", "running"}}

\* The loops that can call the tool: the top-level loops and the running
\* subagent loops
Loops == {TopLevel} \cup Running

\* The tool calls of loop c that have not returned; the loop joins them
\* before it goes on.
Pending(c) ==
    {d \in DOMAIN sub_calls : sub_calls[d].parent = c /\ sub_calls[d].pc # "returned"}

LimitReachedAt(depth) == depth > MAX_SUBAGENT_DEPTH

\* `if depth >= MAX_SUBAGENT_DEPTH`
DepthLimitReached(depth) == depth >= MAX_SUBAGENT_DEPTH

\* execute without a "task" argument: `return ToolResult::error(..)`
ExecuteNoTask(parent) ==
    /\ Len(sub_calls) < MaxSubCalls
    /\ sub_calls' = Append(sub_calls, SubCall(parent, "returned", "task is required"))
    /\ UNCHANGED sub_depth
    /\ UNCHANGED exceptSubagent

\* execute up to `self.current_depth.fetch_add(1, SeqCst)`
ExecuteFetchAdd(parent) ==
    /\ Len(sub_calls) < MaxSubCalls
    /\ sub_calls' = Append(sub_calls, SubCall(parent, "added", None))
    /\ sub_depth' = sub_depth + 1
    /\ UNCHANGED exceptSubagent

\* The limit is reached: fetch_sub and the error result
ExecuteReject(c) ==
    /\ sub_calls[c].pc = "added"
    /\ DepthLimitReached(sub_calls[c].seen)
    /\ sub_depth' = sub_depth - 1
    /\ sub_calls' = [sub_calls EXCEPT ![c].pc = "returned",
                                      ![c].result = "recursion limit reached",
                                      ![c].after = sub_depth - 1]
    /\ UNCHANGED exceptSubagent

\* Below the limit: `self.agent.process_direct(task, session)` starts.
ExecuteSpawn(c) ==
    /\ sub_calls[c].pc = "added"
    /\ ~DepthLimitReached(sub_calls[c].seen)
    /\ sub_calls' = [sub_calls EXCEPT ![c].pc = "running", ![c].started = TRUE]
    /\ UNCHANGED sub_depth
    /\ UNCHANGED exceptSubagent

\* process_direct returns Ok or Err: fetch_sub and the result
ExecuteReturn(c, outcome) ==
    /\ sub_calls[c].pc = "running"
    /\ Pending(c) = {}
    /\ sub_depth' = sub_depth - 1
    /\ sub_calls' = [sub_calls EXCEPT ![c].pc = "returned",
                                      ![c].result = outcome,
                                      ![c].after = sub_depth - 1]
    /\ UNCHANGED exceptSubagent

InitSubagent ==
    /\ LocksIdle
    /\ RunsIdle
    /\ KeysIdle
    /\ LoopIdle /\ StreamIdle /\ RetryIdle /\ StoreIdle /\ LimiterIdle /\ GatewayIdle
    /\ RouterIdle /\ RequestIdle
    /\ sub_depth = 0
    /\ sub_calls = <<>>

NextSubagent ==
    \/ \E parent \in Loops : ExecuteNoTask(parent)
    \/ \E parent \in Loops : ExecuteFetchAdd(parent)
    \/ \E c \in DOMAIN sub_calls : ExecuteReject(c)
    \/ \E c \in DOMAIN sub_calls : ExecuteSpawn(c)
    \/ \E c \in DOMAIN sub_calls, outcome \in {"response", "Subagent failed"} :
          ExecuteReturn(c, outcome)

SpecSubagent == InitSubagent /\ [][NextSubagent]_vars

\* C24 as stated: ..., and when a call of execute has returned the counter
\* is at the value it had when the call was made.
C24_CounterBackAtPriorValue ==
    /\ Cardinality(Running) <= MAX_SUBAGENT_DEPTH
    /\ \A c \in DOMAIN sub_calls :
          sub_calls[c].pc = "returned" => sub_calls[c].after = sub_calls[c].seen

\* C24: at most MAX_SUBAGENT_DEPTH subagent loops run at any moment; a call
\* that finds the counter at the limit - as every call made while that many
\* loops run does, the counter being at least the number of running loops -
\* returns the error result without starting a loop; and every call that
\* has returned has taken back its own increment: the counter is the
\* number of calls between their fetch_add and their fetch_sub, so it is 0
\* when no call is in progress.
C24_DepthBounded ==
    /\ Cardinality(Running) <= MAX_SUBAGENT_DEPTH
    /\ sub_depth = Cardinality(Counted)
    /\ \A c \in DOMAIN sub_calls :
          /\ sub_calls[c].result = "recursion limit reached" => ~sub_calls[c].started
          /\ (sub_calls[c].seen >= MAX_SUBAGENT_DEPTH /\ sub_calls[c].pc = "returned"
                /\ sub_calls[c].result # "task is required")
                => /\ ~sub_calls[c].started
                   /\ sub_calls[c].result = "recursion limit reached"

\* A call made with the counter at MAX_SUBAGENT_DEPTH was turned away, and
\* every call has returned.
C24_Witness ==
    /\ \E c \in DOMAIN sub_calls :
          /\ sub_calls[c].seen = MAX_SUBAGENT_DEPTH
          /\ sub_calls[c].result = "recursion limit reached"
    /\ \A c \in DOMAIN sub_calls : sub_calls[c].pc = "returned"
    /\ sub_depth = 0

(***************************************************************************)
(* The session history a run leaves                                        *)
(***************************************************************************)

\* The run started on a session without messages and without a summary:
\* its first call was handed the system prompt and the user message only.
StartedEmpty ==
    /\ chat_log # <<>>
    /\ chat_log[1].messages = <<MessageSystem("system prompt"), MessageUser("say hello")>>

\* The iteration loop was left through a response without tool calls.
FinalAnswerGiven ==
    /\ pc \in {"summarize", "returned"}
    /\ chat_log # <<>>
    /\ chat_log[Len(chat_log)].outcome.tag = "Ok"
    /\ ~HasToolCalls(chat_log[Len(chat_log)].outcome.response)

\* The tool calls of the t-th response of the run
CallsOfTurn(t) == chat_log[t].outcome.response.tool_calls

\* The roles of the messages one response adds: the assistant message and
\* one tool message per tool call
RolesOfTurn(t) == <<"assistant">> \o [i \in 1..Len(CallsOfTurn(t)) |-> "tool"]

RECURSIVE RolesOfTurns(_)
RolesOfTurns(t) == IF t = 0 THEN <<>> ELSE RolesOfTurns(t - 1) \o RolesOfTurn(t)

RECURSIVE CallsUpTo(_)
CallsUpTo(t) == IF t = 0 THEN 0 ELSE CallsUpTo(t - 1) + Len(CallsOfTurn(t))

\* The position in the session of the assistant message of the t-th response
AssistantAt(t) == 1 + Len(RolesOfTurns(t - 1)) + 1

\* C25: a run on an empty session whose model answers T turns of tool calls
\* (K_1..K_T calls) and then a final answer leaves 2 + T + K_1 + .. + K_T
\* messages: the user message, per turn the assistant message with the
\* turn's tool calls and then K_t tool messages, and the final assistant
\* message.
C25_HistoryLayout ==
    (StartedEmpty /\ FinalAnswerGiven) =>
        LET T == Len(chat_log) - 1
            hist == session.messages
        IN  /\ Len(hist) = 2 + T + CallsUpTo(T)
            /\ [i \in DOMAIN hist |-> hist[i].role]
                  = <<"user">> \o RolesOfTurns(T) \o <<"assistant">>
            /\ hist[1] = MessageUser("say hello")
            /\ \A t \in 1..T :
                  hist[AssistantAt(t)].tool_calls = CallsOfTurn(t)
            /\ hist[Len(hist)].tool_calls = <<>>
            /\ hist[Len(hist)].content = chat_log[T + 1].outcome.response.content

\* One turn with three tool calls, one of them not registered and one that
\* panics, then the final answer: six messages.
C25_Witness ==
    /\ StartedEmpty
    /\ FinalAnswerGiven
    /\ pc = "returned"
    /\ Len(chat_log) = 2
    /\ Len(CallsOfTurn(1)) = 3
    /\ Len(session.messages) = 6

(***************************************************************************)
(* Summarization after the iteration loop, and failed runs                 *)
(***************************************************************************)

SummarizationAttempted == summarizer_log # <<>>

\* C26 as stated: once the run has returned after its iteration loop,
\* summarization was attempted if and only if the message count of the
\* session is a positive multiple of SummarizeEvery, and a successful
\* attempt has replaced the stored summary by the content of the response.
C26_SummarizedAtMultiples ==
    (pc = "returned" /\ ret.tag = "Ok") =>
        /\ SummarizationAttempted <=>
              (MessageCount(session) > 0 /\ MessageCount(session) % SummarizeEvery = 0)
        /\ \A i \in DOMAIN summarizer_log :
              summarizer_log[i].outcome.tag = "Ok" =>
                 session.summary = summarizer_log[i].outcome.response.content

\* The summarizer call of the run failed.
SummarizerFailed ==
    /\ summarizer_log # <<>>
    /\ summarizer_log[Len(summarizer_log)].outcome.tag = "Err"

\* C27: when the summarizer call fails, run_agent_loop returns Ok with the
\* text it returns without summarization - the final content, or the
\* sentinel when that is empty - and the stored summary is the one
\* summarize_session read before the call.
C27_SummaryFailureIgnored ==
    (pc = "returned" /\ SummarizerFailed) =>
        /\ ret = RetOk(FinalText(final_content))
        /\ session.summary = summarizer_log[Len(summarizer_log)].existing

\* The summarizer call failed for a session that had a summary.
C27_Witness ==
    /\ pc = "returned"
    /\ SummarizerFailed
    /\ session.summary = "old summary"
    /\ final_content = "hi"

\* The messages of a call without the leading system messages: the history
\* and what the run appended before the call
Conversation(msgs) == SelectSeq(msgs, LAMBDA m : m.role # "system")

\* C28: the user message is in the session history from before the first
\* LLM call on, and when a call fails and run_agent_loop returns the error
\* the session history still is the earlier history, the user message and
\* every message appended up to the failed call.
C28_NothingRolledBack ==
    /\ pc # "idle" =>
          \E i \in DOMAIN session.messages :
              /\ session.messages[i] = MessageUser("say hello")
              /\ chat_log # <<>> =>
                    i = Len(Conversation(chat_log[1].messages))
    /\ (pc = "returned" /\ ret.tag = "Err") =>
          /\ chat_log[Len(chat_log)].outcome = ChatErr
          /\ session.messages = Conversation(chat_log[Len(chat_log)].messages)

\* A call failed after a turn with tool calls, on a session with history.
C28_Witness ==
    /\ pc = "returned"
    /\ ret.tag = "Err"
    /\ Len(chat_log) = 2
    /\ Len(chat_log[1].messages) > 2
    /\ Len(session.messages) > Len(Conversation(chat_log[1].messages)) + 1

(***************************************************************************)
(* ModelRouter::resolve_model (provider/router.rs)                         *)
(***************************************************************************)

\* routes configured
MaxRoutes == 2
\* characters of a message
MaxMessageLen == 3

\* Strings are sequences of characters.  "a" and "A" are a letter in its two
\* cases; "SIGMA" is the Greek capital sigma, whose lowercase form depends
\* on its place in the word.
Chars == {"a", "A", "SIGMA"}

RECURSIVE StringsUpTo(_)
StringsUpTo(n) ==
    IF n = 0 THEN {<<>>}
    ELSE LET shorter == StringsUpTo(n - 1)
         IN  shorter \cup {Append(s, c) : s \in shorter, c \in Chars}

Messages == StringsUpTo(MaxMessageLen)

\* The keyword lists a route can have
KeywordLists ==
    { <<>>,
      << <<"a">> >>,
      << <<"A">> >>,
      << <<"SIGMA">> >>,
      << <<"A", "SIGMA">> >>,
      << <<"SIGMA", "a">>, <<"A", "A">> >>,
      << <<>> >> }

Models == {"model-a", "model-b"}

\* config::ModelRoute (the description is left out)
ModelRoute(keywords, model) == [keywords |-> keywords, model |-> model]

Routes == {ModelRoute(k, m) : k \in KeywordLists, m \in Models}

RECURSIVE RouteListsUpTo(_)
RouteListsUpTo(n) ==
    IF n = 0 THEN {<<>>}
    ELSE LET shorter == RouteListsUpTo(n - 1)
         IN  shorter \cup {Append(rs, r) : rs \in shorter, r \in Routes}

\* str::to_lowercase: character by character, except that a capital sigma
\* becomes the final sigma when a cased letter precedes it and none follows
\* (Unicode Final_Sigma), and the plain small sigma otherwise.
ToLowercase(s) ==
    [i \in DOMAIN s |->
        CASE s[i] = "A" -> "a"
          [] s[i] = "SIGMA" ->
                IF i > 1 /\ i = Len(s) THEN "final_sigma" ELSE "sigma"
          [] OTHER -> s[i]]

\* str::contains
Contains(haystack, needle) ==
    \E i \in 0..Len(haystack) :
        /\ i + Len(needle) <= Len(haystack)
        /\ SubSeq(haystack, i + 1, i + Len(needle)) = needle

\* `for keyword in &route.keywords { if lower.contains(&keyword.to_lowercase()) .. }`
RouteMatches(route, lower) ==
    \E j \in DOMAIN route.keywords : Contains(lower, ToLowercase(route.keywords[j]))

\* `for route in &self.routes { .. return &route.model; } &self.default_model`
RECURSIVE FirstMatch(_, _, _)
FirstMatch(routes, lower, default) ==
    IF routes = <<>> THEN default
    ELSE IF RouteMatches(Head(routes), lower) THEN Head(routes).model
    ELSE FirstMatch(Tail(routes), lower, default)

ResolveModel(routes, default, message) ==
    FirstMatch(routes, ToLowercase(message), default)

\* run_agent_loop calls self.router.resolve_model(user_message).
ResolveModelCall ==
    /\ router_ret = None
    /\ router_ret' = ResolveModel(router_routes, router_default, router_message)
    /\ UNCHANGED <<router_routes, router_default, router_message>>
    /\ UNCHANGED exceptRouter

InitRouter ==
    /\ LocksIdle
    /\ RunsIdle
    /\ KeysIdle
    /\ LoopIdle /\ StreamIdle /\ RetryIdle /\ StoreIdle /\ LimiterIdle /\ GatewayIdle
    /\ SubagentIdle /\ RequestIdle
    /\ router_routes \in RouteListsUpTo(MaxRoutes)
    /\ router_default = "default"
    /\ router_message \in Messages
    /\ router_ret = None

NextRouter == ResolveModelCall

SpecRouter == InitRouter /\ [][NextRouter]_vars

\* The substrings of a string
Substrings(s) ==
    {SubSeq(s, i, j) : i \in 1..(Len(s) + 1), j \in 0..Len(s)}

\* The keyword occurs in the message when case is ignored: some substring
\* of the message differs from the keyword in case only.
OccursIgnoringCase(keyword, message) ==
    \E w \in Substrings(message) : ToLowercase(w) = ToLowercase(keyword)

\* The routes with a keyword that occurs in the message
MatchingRoutes ==
    {i \in DOMAIN router_routes :
        \E j \in DOMAIN router_routes[i].keywords :
            OccursIgnoringCase(router_routes[i].keywords[j], router_message)}

\* C29: resolve_model returns the model of the first route, in configured
\* order, with a keyword that occurs in the message as a substring when
\* case is ignored, and the default model when there is no such route.
C29_FirstMatchingRoute ==
    router_ret # None =>
        router_ret =
            IF MatchingRoutes = {} THEN router_default
            ELSE router_routes[CHOOSE i \in MatchingRoutes :
                                  \A k \in MatchingRoutes : i <= k].model

(***************************************************************************)
(* The request body of HTTPProvider::chat and chat_stream                  *)
(***************************************************************************)

\* Keys an options map can hold: some the API knows, the two retry keys, and
\* two that the body has of its own.
OptionKeys == {"temperature", "max_retries", "retry_delay_ms", "model", "stream"}

\* JSON values, as their text
OptionValues == {"7", "false"}

OptionMaps == UNION {[keys -> OptionValues] : keys \in SUBSET OptionKeys}

\* Argument `tools`: none, or one definition
ToolLists == {<<>>, <<"exec">>}

ForwardedEvery(k) == TRUE

\* `if k != "max_retries" && k != "retry_delay_ms"`
Forwarded(k) == k # "max_retries" /\ k # "retry_delay_ms"

\* json!({"model": .., "messages": ..}), with "stream": true in chat_stream,
\* and body["tools"] when `tools` is not empty
BaseBody(fn, tools) ==
    [k \in {"model", "messages"}
           \cup (IF fn = "chat_stream" THEN {"stream"} ELSE {})
           \cup (IF tools # <<>> THEN {"tools"} ELSE {}) |->
        CASE k = "model" -> "gpt-4o"
          [] k = "messages" -> "[messages]"
          [] k = "stream" -> "true"
          [] k = "tools" -> "[tools]"]

\* `for (k, v) in options { if .. { obj.insert(k.clone(), v.clone()); } }`
RequestBody(fn, tools, options) ==
    LET base == BaseBody(fn, tools)
        passed == {k \in DOMAIN options : Forwarded(k)}
    IN  [k \in DOMAIN base \cup passed |->
            IF k \in passed THEN options[k] ELSE base[k]]

\* chat builds the body it sends with every attempt.
ChatBuildsBody ==
    /\ req_fn = None
    /\ req_fn' = "chat"
    /\ req_body' = <<RequestBody("chat", req_tools, req_options)>>
    /\ UNCHANGED <<req_tools, req_options>>
    /\ UNCHANGED exceptRequest

\* chat_stream builds the body it sends with every attempt.
ChatStreamBuildsBody ==
    /\ req_fn = None
    /\ req_fn' = "chat_stream"
    /\ req_body' = <<RequestBody("chat_stream", req_tools, req_options)>>
    /\ UNCHANGED <<req_tools, req_options>>
    /\ UNCHANGED exceptRequest

InitRequest ==
    /\ LocksIdle
    /\ RunsIdle
    /\ KeysIdle
    /\ LoopIdle /\ StreamIdle /\ RetryIdle /\ StoreIdle /\ LimiterIdle /\ GatewayIdle
    /\ SubagentIdle /\ RouterIdle
    /\ req_fn = None
    /\ req_tools \in ToolLists
    /\ req_options \in OptionMaps
    /\ req_body = <<>>

NextRequest ==
    \/ ChatBuildsBody
    \/ ChatStreamBuildsBody

SpecRequest == InitRequest /\ [][NextRequest]_vars

\* C30: the body chat and chat_stream send holds every key of the options
\* map other than max_retries and retry_delay_ms with the value the map has
\* for it, and holds neither of those two keys.
C30_OptionsPassedThrough ==
    req_body # <<>> =>
        LET body == req_body[1]
        IN  /\ \A k \in DOMAIN req_options \ {"max_retries", "retry_delay_ms"} :
                  k \in DOMAIN body /\ body[k] = req_options[k]
            /\ DOMAIN body \cap {"max_retries", "retry_delay_ms"} = {}

\* chat_stream was called with both retry keys, a key the API knows and a
\* value for "stream" that is not the body's own.
C30_Witness ==
    /\ req_fn = "chat_stream"
    /\ req_body # <<>>
    /\ {"max_retries", "retry_delay_ms", "temperature", "stream"} \subseteq DOMAIN req_options
    /\ req_options["stream"] = "false"
    /\ req_body[1]["stream"] = "false"

(***************************************************************************)
(* The limiter's stored timestamps, key by key                             *)
(***************************************************************************)

\* The returned calls of one key, in order
CallsOf(key) == SelectSeq(lim_log, LAMBDA call : call.key = key)

\* check_rate_limit run on the calls of one key alone, from an empty map:
\* the results and the map left
RECURSIVE Alone(_)
Alone(calls) ==
    IF calls = <<>> THEN [oks |-> <<>>, history |-> <<>>]
    ELSE LET n == Len(calls)
             before == Alone(SubSeq(calls, 1, n - 1))
             r == CheckRateLimit(before.history, calls[n].key, calls[n].at)
         IN  [oks |-> Append(before.oks, r.ok), history |-> r.history]

\* The accepted calls of a key at time t
AcceptedAt(key, t) ==
    {i \in DOMAIN lim_log : lim_log[i].key = key /\ lim_log[i].ok /\ lim_log[i].at = t}

\* C39: with a maximum M > 0 no key ever has more than M timestamps stored;
\* the stored timestamps of a key are times of accepted calls of that key,
\* each at most as often as calls were accepted at that time, so a rejected
\* call records none; and the results and the stored timestamps of a key
\* are those of its own calls alone, whatever was called for other keys.
C39_PerKeyBounded ==
    lim_max > 0 =>
        /\ \A key \in DOMAIN lim_history :
              /\ Len(lim_history[key]) <= lim_max
              /\ \A j \in DOMAIN lim_history[key] :
                    Cardinality({i \in DOMAIN lim_history[key] :
                                    lim_history[key][i] = lim_history[key][j]})
                       <= Cardinality(AcceptedAt(key, lim_history[key][j]))
        /\ \A key \in Keys :
              LET calls == CallsOf(key)
                  alone == Alone(calls)
              IN  /\ [i \in DOMAIN calls |-> calls[i].ok] = alone.oks
                  /\ Entries(lim_history, key) = Entries(alone.history, key)

\* One key holds M timestamps and was rejected, the other was accepted at
\* the same time.
C39_Witness ==
    /\ lim_max > 0
    /\ \E k1, k2 \in Keys, i, j \in DOMAIN lim_log :
        /\ k1 # k2
        /\ lim_log[i].key = k1 /\ ~lim_log[i].ok
        /\ lim_log[j].key = k2 /\ lim_log[j].ok
        /\ lim_log[i].at = lim_log[j].at
        /\ i < j
        /\ k1 \in DOMAIN lim_history
        /\ Len(lim_history[k1]) = lim_max

\* The number of subagent loops a loop is nested in: 0 for a top-level
\* loop, one more than its caller's for the loop a call started.
RECURSIVE Nesting(_)
Nesting(loop) ==
    IF loop = TopLevel THEN 0 ELSE 1 + Nesting(sub_calls[loop].parent)

\* C38: a subagent call is refused only when it is issued from inside at
\* least MAX_SUBAGENT_DEPTH nested subagent loops; the calls a top-level
\* loop dispatches in one turn are all executed, however many they are.
C38_RefusedOnlyWhenNested ==
    \A c \in DOMAIN sub_calls :
        sub_calls[c].result = "recursion limit reached" =>
            Nesting(sub_calls[c].parent) >= MAX_SUBAGENT_DEPTH

(***************************************************************************)
(* Persisted state and cache misses (SpecStore)                            *)
(***************************************************************************)
\* What the session file holds: <<data>>, or <<>> when the file is absent or
\* is not one complete document.
OnDisk ==
    IF ThePath \in DOMAIN st_dir /\ WellFormed(st_inodes[st_dir[ThePath]])
    THEN <<Deserialize(st_inodes[st_dir[ThePath]])>>
    ELSE <<>>

\* What a get_messages call returns when it runs alone in this state (lines
\* 66-91): the messages of the cache entry, else those of the file, else none.
GetMessagesResult ==
    IF st_cache # <<>> THEN st_cache[1].messages
    ELSE IF OnDisk # <<>> THEN OnDisk[1].messages
    ELSE <<>>

\* C35: when the file holds messages M and summary S and the cache has no
\* entry, add_message(k, m) leaves the entry M followed by m with summary S
\* (what get_messages returns and what the spawned save writes), and
\* set_summary(k, s) leaves the entry M with summary s.
C35_PersistedStateKept ==
    [][(st_cache = <<>> /\ OnDisk # <<>>) =>
        /\ StoreAddMessage =>
            /\ st_cache'[1] = AddMessage(OnDisk[1], st_added'[Len(st_added')])
            /\ SaveTask(st_cache'[1]) \in st_saves'
        /\ StoreSetSummary =>
            /\ st_cache'[1].messages = OnDisk[1].messages
            /\ SaveTask(st_cache'[1]) \in st_saves']_vars

\* C40 (set_summary): set_summary(k, s) leaves what get_messages(k) returns
\* unchanged.
C40_SetSummaryKeepsMessages ==
    [][StoreSetSummary => GetMessagesResult' = GetMessagesResult]_vars

\* C37: once no call is in progress, every spawned save has ended and none
\* of them returned an error, the session file holds the state of the cache
\* entry, in whatever order the save tasks ran.
C37_FileHoldsLatestState ==
    (st_cache # <<>> /\ st_saves = {} /\ ~st_save_failed
        /\ st_clear_pc = "idle" /\ st_get.pc = "idle") =>
        OnDisk = st_cache

(***************************************************************************)
(* session.rs : SessionManager with several session keys over one sessions *)
(* directory.  A save_session task runs here in one step (its stages and   *)
(* their interleavings are those of SpecStore).                            *)
(***************************************************************************)
\* add_message, set_summary and clear calls of the modelled execution
MaxKeyCalls == 2

\* The session keys of the calls, character by character.
SessionKeys == {SessionKey, <<"a", "_", "b">>, <<"c">>}

\* cache.entry(key).or_default()
CacheEntry(cache, key) == IF key \in DOMAIN cache THEN cache[key] ELSE DefaultSession

\* map `f` with `value` under `key`
Inserted(f, key, value) ==
    [k \in DOMAIN f \cup {key} |-> IF k = key THEN value ELSE f[k]]

\* map `f` without `key`
Removed(f, key) == [k \in DOMAIN f \ {key} |-> f[k]]

\* Lines 56, 76, 106, 123: self.session_path(session_key)
SessionFile(key) == SessionPath(key)

\* The task spawned by add_message and set_summary for `key`.
KeySave(key, data) == [path |-> SessionFile(key), data |-> data]

\* Lines 48-63.
KeysAddMessage(key) ==
    /\ ks_calls < MaxKeyCalls
    /\ LET data == AddMessage(CacheEntry(ks_cache, key),
                              "m" \o ToString(ks_calls + 1))
       IN  /\ ks_cache' = Inserted(ks_cache, key, data)
           /\ ks_saves' = ks_saves \cup {KeySave(key, data)}
    /\ ks_calls' = ks_calls + 1
    /\ ks_touched' = ks_touched \cup {key}
    /\ UNCHANGED <<ks_files, ks_msgs_ret, ks_sum_ret>>
    /\ UNCHANGED exceptKeys

\* Lines 100-113.
KeysSetSummary(key) ==
    /\ ks_calls < MaxKeyCalls
    /\ LET data == SetSummary(CacheEntry(ks_cache, key),
                              "s" \o ToString(ks_calls + 1))
       IN  /\ ks_cache' = Inserted(ks_cache, key, data)
           /\ ks_saves' = ks_saves \cup {KeySave(key, data)}
    /\ ks_calls' = ks_calls + 1
    /\ ks_touched' = ks_touched \cup {key}
    /\ UNCHANGED <<ks_files, ks_msgs_ret, ks_sum_ret>>
    /\ UNCHANGED exceptKeys

\* Lines 121-125: the entry is removed, then the file.
KeysClear(key) ==
    /\ ks_calls < MaxKeyCalls
    /\ ks_cache' = Removed(ks_cache, key)
    /\ ks_files' = Removed(ks_files, SessionFile(key))
    /\ ks_calls' = ks_calls + 1
    /\ ks_touched' = ks_touched \cup {key}
    /\ UNCHANGED <<ks_saves, ks_msgs_ret, ks_sum_ret>>
    /\ UNCHANGED exceptKeys

\* Lines 151-163: save_session writes the temp file and renames it.
KeysSaveSession(s) ==
    /\ s \in ks_saves
    /\ ks_files' = Inserted(ks_files, s.path, Serialize(s.data))
    /\ ks_saves' = ks_saves \ {s}
    /\ UNCHANGED <<ks_cache, ks_calls, ks_touched, ks_msgs_ret, ks_sum_ret>>
    /\ UNCHANGED exceptKeys

\* Lines 66-91: the cache entry, else the file (inserted in the cache), else
\* no messages.
KeysGetMessages(key) ==
    /\ IF key \in DOMAIN ks_cache
       THEN /\ ks_msgs_ret' = Inserted(ks_msgs_ret, key, <<ks_cache[key].messages>>)
            /\ UNCHANGED ks_cache
       ELSE IF SessionFile(key) \in DOMAIN ks_files
                /\ WellFormed(ks_files[SessionFile(key)])
       THEN LET data == Deserialize(ks_files[SessionFile(key)])
            IN  /\ ks_cache' = Inserted(ks_cache, key, data)
                /\ ks_msgs_ret' = Inserted(ks_msgs_ret, key, <<data.messages>>)
       ELSE /\ ks_msgs_ret' = Inserted(ks_msgs_ret, key, <<<<>>>>)
            /\ UNCHANGED ks_cache
    /\ UNCHANGED <<ks_files, ks_saves, ks_calls, ks_touched, ks_sum_ret>>
    /\ UNCHANGED exceptKeys

\* Lines 94-97.
KeysGetSummary(key) ==
    /\ ks_sum_ret' = Inserted(ks_sum_ret, key,
                              <<IF key \in DOMAIN ks_cache
                                THEN ks_cache[key].summary ELSE "">>)
    /\ UNCHANGED <<ks_cache, ks_files, ks_saves, ks_calls, ks_touched,
                   ks_msgs_ret>>
    /\ UNCHANGED exceptKeys

InitKeys ==
    /\ LocksIdle
    /\ RunsIdle
    /\ KeysIdle
    /\ LoopIdle /\ StreamIdle /\ RetryIdle /\ StoreIdle /\ LimiterIdle /\ GatewayIdle
    /\ SubagentIdle /\ RouterIdle /\ RequestIdle

NextKeys ==
    \/ \E key \in SessionKeys : KeysAddMessage(key)
    \/ \E key \in SessionKeys : KeysSetSummary(key)
    \/ \E key \in SessionKeys : KeysClear(key)
    \/ \E s \in ks_saves : KeysSaveSession(s)
    \/ \E key \in SessionKeys : KeysGetMessages(key)
    \/ \E key \in SessionKeys : KeysGetSummary(key)

SpecKeys == InitKeys /\ [][NextKeys]_vars

\* C36: a key on which add_message, set_summary and clear were never called
\* keeps returning no messages and the empty summary, whatever was called on
\* the other keys and whether or not it has a cache entry.
C36_KeysIsolated ==
    \A key \in SessionKeys \ ks_touched :
        /\ key \in DOMAIN ks_msgs_ret => ks_msgs_ret[key] = <<<<>>>>
        /\ key \in DOMAIN ks_sum_ret => ks_sum_ret[key] = <<"">>

(***************************************************************************)
(* agent/mod.rs : runs of run_agent_loop on one session key.  Every        *)
(* add_message call is a step of its own: the cache lock is taken and      *)
(* released inside the call, so calls of other runs come in between.  The  *)
(* tool tasks of this model return (a panicking task is in SpecLoop).      *)
(***************************************************************************)
\* tool calls in one response of the model
MaxBatch == 2

\* The callers that run the loop on the session key: AgentLoop::run for a
\* gateway message and process_direct for a direct call.
Runs == {"gateway", "direct"}

\* The id the model gives the i-th call of the response of iteration `it`
\* of run `r`.
RunCallId(r, it, i) == r \o "_" \o CallId(it, i)

\* The orders in which join_next hands over the results of `calls`.
CompletionOrders(calls) ==
    LET perms == {p \in [DOMAIN calls -> DOMAIN calls] :
                     \A i, j \in DOMAIN calls : p[i] = p[j] => i = j}
    IN  {[i \in DOMAIN calls |-> calls[p[i]]] : p \in perms}

\* Lines 179-201: the context is built and the user message is added.
RunStart(r) ==
    /\ r \notin DOMAIN rn_pc
    /\ rn_pc' = Inserted(rn_pc, r, "chat")
    /\ rn_iteration' = Inserted(rn_iteration, r, 0)
    /\ rn_calls' = Inserted(rn_calls, r, <<>>)
    /\ rn_results' = Inserted(rn_results, r, <<>>)
    /\ rn_history' = Append(rn_history, MessageUser(r))
    /\ UNCHANGED exceptRuns

\* Lines 227-290: the provider call fails and run_agent_loop returns Err.
RunChatFails(r) ==
    /\ r \in DOMAIN rn_pc
    /\ rn_pc[r] = "chat"
    /\ rn_iteration[r] < MaxToolIterations
    /\ rn_pc' = [rn_pc EXCEPT ![r] = "done"]
    /\ rn_iteration' = [rn_iteration EXCEPT ![r] = @ + 1]
    /\ UNCHANGED <<rn_calls, rn_results, rn_history>>
    /\ UNCHANGED exceptRuns

\* Lines 358-366: a response without tool calls; the assistant message is
\* added and the loop ends (maybe_summarize adds no message).
RunChatFinal(r) ==
    /\ r \in DOMAIN rn_pc
    /\ rn_pc[r] = "chat"
    /\ rn_iteration[r] < MaxToolIterations
    /\ rn_pc' = [rn_pc EXCEPT ![r] = "done"]
    /\ rn_iteration' = [rn_iteration EXCEPT ![r] = @ + 1]
    /\ rn_history' = Append(rn_history, MessageAssistant("answer"))
    /\ UNCHANGED <<rn_calls, rn_results>>
    /\ UNCHANGED exceptRuns

\* Lines 369-392: a response with k tool calls; the assistant message that
\* carries them is added.
RunChatToolCalls(r, k) ==
    /\ r \in DOMAIN rn_pc
    /\ rn_pc[r] = "chat"
    /\ rn_iteration[r] < MaxToolIterations
    /\ LET calls == [i \in 1..k |-> RunCallId(r, rn_iteration[r] + 1, i)]
       IN  /\ rn_calls' = [rn_calls EXCEPT ![r] = calls]
           /\ rn_history' = Append(rn_history,
                                   MessageAssistantWithToolCalls("", calls))
    /\ rn_pc' = [rn_pc EXCEPT ![r] = "execute"]
    /\ rn_iteration' = [rn_iteration EXCEPT ![r] = @ + 1]
    /\ UNCHANGED rn_results
    /\ UNCHANGED exceptRuns

\* Line 395: execute_tools returns the results in completion order.
RunExecuteTools(r, order) ==
    /\ r \in DOMAIN rn_pc
    /\ rn_pc[r] = "execute"
    /\ order \in CompletionOrders(rn_calls[r])
    /\ rn_results' = [rn_results EXCEPT ![r] = order]
    /\ rn_pc' = [rn_pc EXCEPT ![r] = "append"]
    /\ UNCHANGED <<rn_iteration, rn_calls, rn_history>>
    /\ UNCHANGED exceptRuns

\* Lines 398-410: one pass of the `for result in tool_results` loop, its
\* add_message call; after the last result the LLM loop goes on.
RunAddToolMessage(r) ==
    /\ r \in DOMAIN rn_pc
    /\ rn_pc[r] = "append"
    /\ rn_history' = Append(rn_history,
                            MessageToolResult(Head(rn_results[r]), "output"))
    /\ rn_results' = [rn_results EXCEPT ![r] = Tail(@)]
    /\ rn_pc' = [rn_pc EXCEPT ![r] =
                    IF Len(rn_results[r]) = 1 THEN "chat" ELSE "append"]
    /\ UNCHANGED <<rn_iteration, rn_calls>>
    /\ UNCHANGED exceptRuns

\* Line 227: the `for` loop ends after max_tool_iterations iterations.
RunLoopExhausted(r) ==
    /\ r \in DOMAIN rn_pc
    /\ rn_pc[r] = "chat"
    /\ rn_iteration[r] = MaxToolIterations
    /\ rn_pc' = [rn_pc EXCEPT ![r] = "done"]
    /\ UNCHANGED <<rn_iteration, rn_calls, rn_results, rn_history>>
    /\ UNCHANGED exceptRuns

InitRuns ==
    /\ LocksIdle
    /\ RunsIdle
    /\ KeysIdle
    /\ LoopIdle /\ StreamIdle /\ RetryIdle /\ StoreIdle /\ LimiterIdle /\ GatewayIdle
    /\ SubagentIdle /\ RouterIdle /\ RequestIdle

NextRuns ==
    \/ \E r \in Runs : RunStart(r)
    \/ \E r \in Runs : RunChatFails(r)
    \/ \E r \in Runs : RunChatFinal(r)
    \/ \E r \in Runs, k \in 1..MaxBatch : RunChatToolCalls(r, k)
    \/ \E r \in DOMAIN rn_calls : \E order \in CompletionOrders(rn_calls[r]) :
          RunExecuteTools(r, order)
    \/ \E r \in Runs : RunAddToolMessage(r)
    \/ \E r \in Runs : RunLoopExhausted(r)

SpecRuns == InitRuns /\ [][NextRuns]_vars

\* No run is in progress.
RunsEnded == \A r \in DOMAIN rn_pc : rn_pc[r] = "done"

\* The tool_call_ids of the k messages after position i, when those are
\* tool messages.
AnswersAfter(history, i, k) ==
    {history[j].tool_call_id : j \in {n \in (i + 1)..(i + k) :
        n <= Len(history) /\ history[n].role = "tool"}}

\* C34: when the runs on a session key have ended, each assistant message
\* of its history that carries K tool calls is followed at once by K tool
\* messages that answer those K calls.
C34_ToolMessagesAdjacent ==
    RunsEnded =>
        \A i \in DOMAIN rn_history :
            LET calls == rn_history[i].tool_calls
            IN  AnswersAfter(rn_history, i, Len(calls)) = Range(calls)

(***************************************************************************)
(* Progress of the streaming branch.  The transport call, the forwarding   *)
(* task and the awaiting loop are tasks of the tokio runtime: each of them *)
(* runs when it can take a step.  The caller's sink is always drained.     *)
(***************************************************************************)
TransportStep ==
    \/ StartStreaming
    \/ HttpSuccess
    \/ HttpRetry
    \/ HttpFail
    \/ ReadLine
    \/ ReadNewline
    \/ ReadError
    \/ EndOfStream
    \/ TailFlush
    \/ SendEvent
    \/ ChatStreamReturn

ForwarderStep == ForwardEvent \/ ForwarderExit

SpecStreamFair ==
    /\ SpecStream
    /\ WF_vars(TransportStep)
    /\ WF_vars(ForwarderStep)
    /\ WF_vars(DoneRecv)

\* The streaming call has come back to run_agent_loop with a response or an
\* error.
StreamingReturned == main_pc \in {"got", "err"}

\* The transport is suspended in tx.send on the full event channel.
SendBlocked == outbox # <<>> /\ Len(event_ch) = EventChanCap

\* C32: a transport call that emits more events than the event channel
\* holds is not blocked forever: the call returns and every event sent has
\* reached the sink.
C32_StreamingCompletes ==
    SendBlocked ~> (StreamingReturned /\ Len(sink) = Len(sent))

(***************************************************************************)
(* Progress of the gateway.  AgentLoop::run and the bridge tasks of the    *)
(* registered channels are tasks of the tokio runtime; LLM and tool calls  *)
(* return, so a step of process_message is always taken.  The channels     *)
(* publish inbound messages when they please.                              *)
(***************************************************************************)
RunStep ==
    \/ ConsumeInbound
    \/ ProcessFails
    \/ \E outcome \in LoopOutcomes : ProcessAnswers(outcome)
    \/ PublishToHandler
    \/ PublishToGlobal

SpecGatewayFair ==
    /\ SpecGateway
    /\ WF_vars(RunStep)
    /\ \A channel \in Registered : WF_vars(BridgeReceive(channel))

\* The n-th message published was taken from the bus and run is done with
\* it: its reply or its rate limit notice is published, or its error logged.
Answered(n) == Len(gw_handled) >= n /\ gw_handled[n].done

\* C33: every inbound message is eventually taken from the bus and
\* answered, whatever the number of messages, although no task receives
\* from the global outbound channel.
C33_EveryMessageAnswered ==
    \A n \in 1..MaxInbound : (gw_arrived >= n) ~> Answered(n)

(***************************************************************************)
(* The locks of the ToolRegistry (tool/mod.rs), the MessageBus (bus.rs),   *)
(* the SessionManager cache (session.rs) and the RateLimiter               *)
(* (agent/mod.rs): which guards a task holds at each await of an operation *)
(***************************************************************************)
\* operations per behaviour
MaxLockOps == 4

Tasks == {"t1", "t2"}

ToolNames == {"exec", "missing"}

BusChannels == {"telegram", "cron"}

\* The awaits of the operations at which a task is suspended on something
\* other than a lock: Tool::execute and the sends on the mpsc channels.
AwaitPoints == {"tool_execute", "handler_send", "global_send"}

\* Guards of a tokio RwLock / Mutex held by the other tasks.
HeldByOthers(t, guard) ==
    \E u \in Tasks \ {t} : guard \in lk_held[u]

CanRead(t, lock) == ~HeldByOthers(t, <<lock, "write">>)

CanWrite(t, lock) ==
    ~HeldByOthers(t, <<lock, "write">>) /\ ~HeldByOthers(t, <<lock, "read">>)

Begins(t) == lk_pc[t] = "idle" /\ lk_ops < MaxLockOps

\* tool/mod.rs lines 104-107: register inserts under the write guard, which
\* is dropped at the end of the statement.
RegistryRegister(t, name) ==
    /\ Begins(t)
    /\ CanWrite(t, "tools")
    /\ lk_tools' = lk_tools \cup {name}
    /\ lk_ops' = lk_ops + 1
    /\ UNCHANGED <<lk_pc, lk_held, lk_handlers>>
    /\ UNCHANGED exceptLocks

\* tool/mod.rs lines 109-130: `let tools = self.tools.read().await` lives to
\* the end of execute.  An unknown name returns at once; for a known one the
\* task is suspended in `tool.execute(args).await`.
RegistryExecuteBegin(t, name) ==
    /\ Begins(t)
    /\ CanRead(t, "tools")
    /\ IF name \in lk_tools
       THEN /\ lk_pc' = [lk_pc EXCEPT ![t] = "tool_execute"]
            /\ lk_held' = [lk_held EXCEPT ![t] = @ \cup {<<"tools", "read">>}]
       ELSE UNCHANGED <<lk_pc, lk_held>>
    /\ lk_ops' = lk_ops + 1
    /\ UNCHANGED <<lk_tools, lk_handlers>>
    /\ UNCHANGED exceptLocks

\* tool/mod.rs lines 114-123: the tool returns, the result is logged and
\* returned; `tools` is dropped.
RegistryExecuteReturn(t) ==
    /\ lk_pc[t] = "tool_execute"
    /\ lk_pc' = [lk_pc EXCEPT ![t] = "idle"]
    /\ lk_held' = [lk_held EXCEPT ![t] = @ \ {<<"tools", "read">>}]
    /\ UNCHANGED <<lk_tools, lk_handlers, lk_ops>>
    /\ UNCHANGED exceptLocks

\* bus.rs lines 91-93: register_handler inserts under the write guard.
RegisterHandler(t, channel) ==
    /\ Begins(t)
    /\ CanWrite(t, "handlers")
    /\ lk_handlers' = lk_handlers \cup {channel}
    /\ lk_ops' = lk_ops + 1
    /\ UNCHANGED <<lk_pc, lk_held, lk_tools>>
    /\ UNCHANGED exceptLocks

\* bus.rs lines 71-75: `let handlers = self.handlers.read().await` lives to
\* the end of publish_outbound; the first await is the send to the handler
\* of the channel, or the send to the global channel when it has none.
PublishOutboundBegin(t, channel) ==
    /\ Begins(t)
    /\ CanRead(t, "handlers")
    /\ lk_pc' = [lk_pc EXCEPT ![t] = IF channel \in lk_handlers
                                     THEN "handler_send" ELSE "global_send"]
    /\ lk_held' = [lk_held EXCEPT ![t] = @ \cup {<<"handlers", "read">>}]
    /\ lk_ops' = lk_ops + 1
    /\ UNCHANGED <<lk_tools, lk_handlers>>
    /\ UNCHANGED exceptLocks

\* bus.rs lines 74-79: the send to the handler has completed.
PublishHandlerSent(t) ==
    /\ lk_pc[t] = "handler_send"
    /\ lk_pc' = [lk_pc EXCEPT ![t] = "global_send"]
    /\ UNCHANGED <<lk_held, lk_tools, lk_handlers, lk_ops>>
    /\ UNCHANGED exceptLocks

\* bus.rs lines 81-85: the send to the global channel has completed and
\* publish_outbound returns; `handlers` is dropped.
PublishGlobalSent(t) ==
    /\ lk_pc[t] = "global_send"
    /\ lk_pc' = [lk_pc EXCEPT ![t] = "idle"]
    /\ lk_held' = [lk_held EXCEPT ![t] = @ \ {<<"handlers", "read">>}]
    /\ UNCHANGED <<lk_tools, lk_handlers, lk_ops>>
    /\ UNCHANGED exceptLocks

\* session.rs lines 48-63 and 100-113: add_message and set_summary take the
\* write guard, change the entry, spawn the save and return; no await
\* stands between the lock and the return.
SessionsMutate(t) ==
    /\ Begins(t)
    /\ CanWrite(t, "cache")
    /\ lk_ops' = lk_ops + 1
    /\ UNCHANGED <<lk_pc, lk_held, lk_tools, lk_handlers>>
    /\ UNCHANGED exceptLocks

\* agent/mod.rs lines 56-77: check_rate_limit takes the mutex and returns;
\* no await stands between the lock and the return.
LimiterCheck(t) ==
    /\ Begins(t)
    /\ CanWrite(t, "history")
    /\ lk_ops' = lk_ops + 1
    /\ UNCHANGED <<lk_pc, lk_held, lk_tools, lk_handlers>>
    /\ UNCHANGED exceptLocks

InitLocks ==
    /\ RunsIdle
    /\ KeysIdle
    /\ LoopIdle /\ StreamIdle /\ RetryIdle /\ StoreIdle /\ LimiterIdle /\ GatewayIdle
    /\ SubagentIdle /\ RouterIdle /\ RequestIdle
    /\ lk_pc = [t \in Tasks |-> "idle"]
    /\ lk_held = [t \in Tasks |-> {}]
    /\ lk_tools \in SUBSET {"exec"}
    /\ lk_handlers \in SUBSET {"telegram"}
    /\ lk_ops = 0

NextLocks ==
    \/ \E t \in Tasks, name \in ToolNames \ {"missing"} : RegistryRegister(t, name)
    \/ \E t \in Tasks, name \in ToolNames : RegistryExecuteBegin(t, name)
    \/ \E t \in Tasks : RegistryExecuteReturn(t)
    \/ \E t \in Tasks, channel \in BusChannels \ {"cron"} : RegisterHandler(t, channel)
    \/ \E t \in Tasks, channel \in BusChannels : PublishOutboundBegin(t, channel)
    \/ \E t \in Tasks : PublishHandlerSent(t)
    \/ \E t \in Tasks : PublishGlobalSent(t)
    \/ \E t \in Tasks : SessionsMutate(t)
    \/ \E t \in Tasks : LimiterCheck(t)

SpecLocks == InitLocks /\ [][NextLocks]_vars

\* C31: no task holds a guard of the tool registry, the session cache, the
\* rate limiter or the message bus while it is suspended on a tool
\* execution or on a channel send.
C31_NoGuardAcrossAwait ==
    \A t \in Tasks : lk_pc[t] \in AwaitPoints => lk_held[t] = {}

====
